---------------------------- MODULE Spec2Model ----------------------------
(***************************************************************************)
(* Session state store of the hooks: the session registry of              *)
(* hooks/hook_utils.py (one JSON file, flock + write-temp-then-rename) and *)
(* the per-session settings files of hooks/session_settings.py.           *)
(*                                                                         *)
(* Every hook invocation is a separate OS process; the processes of the    *)
(* model are such invocations, and one step of a process is one system     *)
(* call on the shared filesystem.                                          *)
(*                                                                         *)
(* Granularity of a write: json.dump writes into Python's buffered file    *)
(* object and the bytes reach the file in one write() when the buffer is   *)
(* flushed (f.flush(), or the close at the end of the with block).  open   *)
(* with mode 'w' truncates the file as its own, earlier system call.       *)
(***************************************************************************)
EXTENDS Integers, Sequences, FiniteSets, TLC

(***************************************************************************)
(* Bounds of the model.                                                    *)
(***************************************************************************)
MaxOps == 2        \* calls started in one behaviour, over all processes

Procs == {"p1", "p2"}
SessionIds == {"s1", "s2"}
Cwds == {"/a", "/b"}

NoneTime == 0      \* Python's None in a timestamp field
NoProc == "none"
NoInode == 0       \* "no such file" / no open file
Inodes == 1..(Cardinality(Procs) + 2)

SESSIONS_FILE == "claude-sessions.json"
TEMP_FILE == "claude-sessions.json.tmp"
FileNames == {SESSIONS_FILE, TEMP_FILE}

VARIABLES
    names,      \* directory: file name -> inode, NoInode when the name is absent
    content,    \* inode -> the file's bytes, a sequence of JSON tokens
    lockedBy,   \* inode -> the process holding flock(LOCK_EX) on it, or NoProc
    pc,         \* process -> its position in the call it runs
    op,         \* process -> the call it runs: [kind, sid, arg]
    data,       \* process -> the local variable `data` of the call
    fd,         \* process -> inode of the file object f it has open, or NoInode
    now,        \* time.time(): a clock that has advanced at every reading
    done,       \* history: the calls that returned, in order of return
    started,    \* history: number of calls started
    timedOut,   \* history: some acquire_lock returned False
    before,     \* history: the registry file when write_sessions was entered
    initial,    \* fixed: the bytes of the registry file in the initial state
    sequential, \* fixed: TRUE when the calls run one after another
    sfile,      \* settings: session id -> its settings file [exists, bytes]
    spc,        \* settings: process -> its position in the call it runs
    sop,        \* settings: process -> the call it runs [kind, sid, arg, pre]
    sdoc,       \* settings: process -> the settings dict it holds
    sdone,      \* settings history: the calls that returned, in order
    transcript, \* scanner, fixed: the transcript file [exists, readable, lines]
    scanPc,     \* scanner: position of parse_latest_todos
    lineNo,     \* scanner: the line the open pass reads next
    rejected_tool_ids, \* scanner: the set built by the first pass
    todos,      \* scanner: the local variable `todos`, None or a list
    taken,      \* scanner history: <<line, block>> that `todos` was taken from
    hook,       \* approval hook: the run of main() [p, pc, input, mode, ...]
    hookOut,    \* approval hook: what main() printed and its exit status
    storeBefore, \* approval hook, fixed: the settings files as main() began
    lookup,     \* get_current_session_id: [pc, cwd, printed, exit, raised]
    polls,      \* acquire_lock: process -> the polls that found the lock held
    event,      \* the hook that runs: [kind, p, pc, input, call, base, registry]
    events      \* history: number of hook runs started

settingsVars == <<sfile, spc, sop, sdoc, sdone>>
scanVars == <<transcript, scanPc, lineNo, rejected_tool_ids, todos, taken>>
hookVars == <<hook, hookOut, storeBefore, lookup, event, events>>
registryVars == <<names, content, lockedBy, pc, op, data, fd, done, timedOut,
                  before, initial, polls>>
\* what the registry operations leave alone
fixed == <<initial, sequential, settingsVars, scanVars, hookVars, polls>>
vars == <<names, content, lockedBy, pc, op, data, fd, now, done, started,
          timedOut, before, fixed>>

(***************************************************************************)
(* Python dicts are functions from keys to values.                         *)
(***************************************************************************)
Get(d, k, default) == IF k \in DOMAIN d THEN d[k] ELSE default

\* dict.update(updates)
DictUpdate(d, updates) ==
    [k \in DOMAIN d \cup DOMAIN updates |->
        IF k \in DOMAIN updates THEN updates[k] ELSE d[k]]

\* [s for s in sessions if s.get("session_id") != session_id]
RECURSIVE FilterOut(_, _)
FilterOut(sessions, session_id) ==
    IF sessions = <<>> THEN <<>>
    ELSE LET rest == FilterOut(Tail(sessions), session_id)
         IN  IF Get(Head(sessions), "session_id", "None") # session_id
             THEN <<Head(sessions)>> \o rest
             ELSE rest

EmptyStructure == [sessions |-> <<>>, last_updated |-> NoneTime]

(***************************************************************************)
(* json.dump / json.load of the registry document.  With indent=2 the      *)
(* text is a line for the opening brace, one entry per session record,    *)
(* the last_updated entry and the closing brace; the bytes of a file are   *)
(* the sequence of these tokens.                                           *)
(***************************************************************************)
JsonDump(d) ==
    <<[t |-> "{"]>>
    \o [i \in 1..Len(d.sessions) |-> [t |-> "session", v |-> d.sessions[i]]]
    \o <<[t |-> "last_updated", v |-> d.last_updated], [t |-> "}"]>>

\* json.load raises JSONDecodeError unless the bytes are one whole document
IsDocument(bytes) ==
    /\ Len(bytes) >= 3
    /\ bytes[1].t = "{"
    /\ bytes[Len(bytes)].t = "}"
    /\ bytes[Len(bytes) - 1].t = "last_updated"
    /\ \A i \in 2..(Len(bytes) - 2) : bytes[i].t = "session"

JsonLoad(bytes) ==
    [sessions |-> [i \in 1..(Len(bytes) - 3) |-> bytes[i + 1].v],
     last_updated |-> bytes[Len(bytes) - 1].v]

\* write() at file offset 0 of a file that holds `old`: bytes past the end of
\* the written text stay
WriteAt0(old, new) == new \o SubSeq(old, Len(new) + 1, Len(old))

(***************************************************************************)
(* hook_utils: the read-modify-write of the three registry operations      *)
(***************************************************************************)
\* add_session without the filter: the record is appended only
AddSessionAppendOnly(d, session_data, t) ==
    [sessions |-> Append(d.sessions, session_data), last_updated |-> t]

\* index of the first record with this id, 0 when there is none (for ... break)
FirstMatch(sessions, session_id) ==
    LET hits == {i \in 1..Len(sessions) :
                    Get(sessions[i], "session_id", "None") = session_id}
    IN  IF hits = {} THEN 0 ELSE CHOOSE i \in hits : \A j \in hits : i <= j

\* add_session that leaves a session alone when its id is already registered
AddSessionKeepExisting(d, session_data, t) ==
    [sessions |->
        IF FirstMatch(d.sessions, Get(session_data, "session_id", "None")) # 0
        THEN d.sessions ELSE Append(d.sessions, session_data),
     last_updated |-> t]

\* remove_session that drops the first record with the id only
RemoveSessionFirstOnly(d, session_id, t) ==
    LET i == FirstMatch(d.sessions, session_id)
    IN  [sessions |-> IF i = 0 THEN d.sessions
                      ELSE SubSeq(d.sessions, 1, i - 1)
                           \o SubSeq(d.sessions, i + 1, Len(d.sessions)),
         last_updated |-> t]

\* remove_session that filters nothing out
RemoveSessionKeepsAll(d, session_id, t) ==
    [sessions |-> d.sessions, last_updated |-> t]

\* update_session that adds the record when the id has none
UpdateSessionUpsert(d, session_id, updates, t) ==
    LET i == FirstMatch(d.sessions, session_id)
    IN  [sessions |-> IF i = 0
                      THEN Append(d.sessions,
                                  DictUpdate([session_id |-> session_id], updates))
                      ELSE [d.sessions EXCEPT ![i] = DictUpdate(@, updates)],
         last_updated |-> t]

AddSession(d, session_data, t) ==
    [sessions |-> Append(FilterOut(d.sessions,
                                   Get(session_data, "session_id", "None")),
                         session_data),
     last_updated |-> t]

RemoveSession(d, session_id, t) ==
    [sessions |-> FilterOut(d.sessions, session_id), last_updated |-> t]

UpdateSession(d, session_id, updates, t) ==
    LET i == FirstMatch(d.sessions, session_id)
    IN  [sessions |-> IF i = 0 THEN d.sessions
                      ELSE [d.sessions EXCEPT ![i] = DictUpdate(@, updates)],
         last_updated |-> t]

\* the statements between read_sessions() and write_sessions(data)
Modify(o, d, t) ==
    CASE o.kind = "add" -> AddSession(d, o.arg, t)
      [] o.kind = "remove" -> RemoveSession(d, o.sid, t)
      [] o.kind = "update" -> UpdateSession(d, o.sid, o.arg, t)
      [] OTHER -> d

(***************************************************************************)
(* Inputs of the calls, as the hooks make them.                            *)
(***************************************************************************)
\* session-start: session_data of add_session
SessionData(s, c) ==
    [session_id |-> s, cwd |-> c, status |-> "running"]

\* notification-hook: updates of update_session
Updates ==
    {[status |-> "needs_permission", last_notification |-> "permission"]}

NoArg == [session_id |-> "None"]
Idle == [kind |-> "none", sid |-> "None", arg |-> NoArg]

CallsIn(cwds) ==
    {[kind |-> "add", sid |-> s, arg |-> SessionData(s, c)] :
        s \in SessionIds, c \in cwds}
    \cup {[kind |-> "remove", sid |-> s, arg |-> NoArg] : s \in SessionIds}
    \cup {[kind |-> "update", sid |-> s, arg |-> u] :
            s \in SessionIds, u \in Updates}

Calls == CallsIn(Cwds)
\* the calls of concurrent processes: sessions started in one directory
ConcurrentCalls == CallsIn({"/b"})

(***************************************************************************)
(* session_settings: the settings document and its JSON text.  The bytes   *)
(* of a settings file are the opening brace, one entry per top-level key   *)
(* and the closing brace.                                                  *)
(***************************************************************************)
\* the ids the settings calls are made with; "" is the missing session_id
SettingsIds == {"s1", ""}

HookNames == {"stop-hook", "notification-hook", "session-start", "session-end"}
KeyOrder == <<"session_id", "created_at", "hooks_enabled", "metadata",
              "updated_at">>

DefaultModeAuto == "auto"
DefaultMode == "ai"

\* get_default_settings(session_id), datetime.utcnow() being t
GetDefaultSettings(session_id, t) ==
    [session_id |-> session_id,
     created_at |-> t,
     hooks_enabled |-> [h \in HookNames |-> TRUE],
     metadata |-> [approval_mode |-> DefaultMode]]

\* json.dump(settings, f, indent=2) that leaves the metadata entry out
SettingsDumpNoMetadata(d) ==
    LET keys == SelectSeq(KeyOrder, LAMBDA k : k \in DOMAIN d /\ k # "metadata")
    IN  <<[t |-> "{"]>>
        \o [i \in 1..Len(keys) |-> [t |-> "entry", k |-> keys[i], v |-> d[keys[i]]]]
        \o <<[t |-> "}"]>>

\* json.dump(settings, f, indent=2)
SettingsDump(d) ==
    LET keys == SelectSeq(KeyOrder, LAMBDA k : k \in DOMAIN d)
    IN  <<[t |-> "{"]>>
        \o [i \in 1..Len(keys) |-> [t |-> "entry", k |-> keys[i], v |-> d[keys[i]]]]
        \o <<[t |-> "}"]>>

\* json.load(f) raises JSONDecodeError unless the bytes are one whole document
IsSettingsDocument(bytes) ==
    /\ Len(bytes) >= 2
    /\ bytes[1].t = "{"
    /\ bytes[Len(bytes)].t = "}"
    /\ \A i \in 2..(Len(bytes) - 1) : bytes[i].t = "entry"

\* json.load(f): of a repeated key the last entry counts
SettingsLoad(bytes) ==
    LET entries == 2..(Len(bytes) - 1)
        last(k) == CHOOSE i \in entries :
                      /\ bytes[i].k = k
                      /\ \A j \in entries : bytes[j].k = k => j <= i
    IN  [k \in {bytes[i].k : i \in entries} |-> bytes[last(k)].v]

\* settings.get("metadata", {}).get(key, "not_set")
GetMetadataNotSet(settings, key, default) ==
    IF "metadata" \in DOMAIN settings
    THEN Get(settings.metadata, key, "not_set")
    ELSE "not_set"

\* settings.get("metadata", {}).get(key, default)
GetMetadata(settings, key, default) ==
    IF "metadata" \in DOMAIN settings THEN Get(settings.metadata, key, default)
    ELSE default

\* settings["updated_at"] = datetime.utcnow()...
Stamped(settings, t) == DictUpdate(settings, [updated_at |-> t])

\* settings documents passed to save_settings
Settings(mode) ==
    [session_id |-> "s1", created_at |-> 1,
     hooks_enabled |-> [h \in HookNames |-> h # "stop-hook"],
     metadata |-> [approval_mode |-> mode]]

\* a document without the approval_mode key, and without two of the hooks
NoApprovalMode ==
    [session_id |-> "s1",
     hooks_enabled |-> [h \in {"stop-hook", "session-end"} |-> FALSE],
     metadata |-> [project_name |-> "p"]]

SettingsInputs == {Settings("strict"), Settings("disabled"), NoApprovalMode}

NoSettings == [session_id |-> "None"]
NoFile == [exists |-> FALSE, bytes |-> <<>>]
SettingsIdle == [kind |-> "none", sid |-> "None", arg |-> NoSettings,
                 pre |-> NoFile]

SettingsCalls ==
    {[kind |-> k, sid |-> s, arg |-> NoSettings] :
        k \in {"load", "get_metadata"}, s \in SettingsIds}
    \cup {[kind |-> "save", sid |-> s, arg |-> d] :
            s \in SettingsIds, d \in SettingsInputs}

(***************************************************************************)
(* approval-hook: the hook input and what main() prints.  A file path and  *)
(* an answer of the Judge are texts in pieces: "/" and the names between   *)
(* for a path, words and white space for an answer.                        *)
(***************************************************************************)
Slash == "/"
NoPath == <<>>     \* tool_input.get("file_path", "")

NoInput == [valid |-> FALSE, session_id |-> "", tool_name |-> "None",
            file_path |-> NoPath]
RECURSIVE Resolved(_, _)
\* the names of a path with its ".." components followed
Resolved(parts, sofar) ==
    IF parts = <<>> THEN sofar
    ELSE IF Head(parts) = ".."
    THEN Resolved(Tail(parts), SubSeq(sofar, 1, Len(sofar) - 1))
    ELSE Resolved(Tail(parts), Append(sofar, Head(parts)))

RECURSIVE Joined(_)
\* the path of these names
Joined(parts) ==
    IF parts = <<>> THEN <<>>
    ELSE <<Slash, Head(parts)>> \o Joined(Tail(parts))

\* str(Path(cwd).resolve()) of an absolute path, no name being a link
Resolve(path) ==
    LET target == Resolved(SelectSeq(path, LAMBDA x : x # Slash), <<>>)
    IN  IF target = <<>> THEN <<Slash>> ELSE Joined(target)

\* get_current_session_id: no session
NoSession == "None"
NoLookup == [pc |-> "idle", cwd |-> <<>>, printed |-> NoSession, exit |-> -1,
             raised |-> FALSE]

\* the input of session-start, session-end, notification-hook and stop-hook
NoEventInput == [valid |-> FALSE, session_id |-> "", message |-> <<>>,
                 stop_hook_active |-> FALSE]
\* nothing on standard output
NoOutput == [decision |-> "none", reason |-> "none", named |-> "", exit |-> -1]

(***************************************************************************)
(* The filesystem                                                          *)
(***************************************************************************)
Referenced(nm, f, i) ==
    (\E n \in FileNames : nm[n] = i) \/ (\E p \in Procs : f[p] = i)

\* an inode no name and no open file refers to is gone
Reclaim(nm, f, c) == [i \in Inodes |-> IF Referenced(nm, f, i) THEN c[i] ELSE <<>>]

FreshInode == CHOOSE i \in Inodes :
    /\ ~Referenced(names, fd, i)
    /\ \A j \in Inodes : ~Referenced(names, fd, j) => i <= j

\* what a process that opens the registry now would find
RegistryExists == names[SESSIONS_FILE] # NoInode
RegistryBytes == IF RegistryExists THEN content[names[SESSIONS_FILE]] ELSE <<>>
RegistryFile == [exists |-> RegistryExists, bytes |-> RegistryBytes]

\* read_sessions() of a process that runs alone
ReadSessions ==
    IF ~RegistryExists THEN EmptyStructure
    ELSE IF IsDocument(RegistryBytes) THEN JsonLoad(RegistryBytes)
    ELSE EmptyStructure

(***************************************************************************)
(* Initial states: the registry file is absent, or holds a document the    *)
(* registry operations produce.                                            *)
(***************************************************************************)
InitialDocuments ==
    {EmptyStructure,
     [sessions |-> <<SessionData("s1", "/a"), SessionData("s2", "/a")>>,
      last_updated |-> 1]}

\* no transcript, no scan
InitNoScan ==
    /\ transcript = [exists |-> FALSE, readable |-> FALSE, lines |-> <<>>]
    /\ scanPc = "idle"
    /\ lineNo = 0
    /\ rejected_tool_ids = {}
    /\ todos = [some |-> FALSE, v |-> <<>>]
    /\ taken = <<0, 0>>

\* the approval hook does not run
InitNoHook ==
    /\ hook = [p |-> NoProc, pc |-> "idle", input |-> NoInput,
               approval_mode |-> "unread", rules |-> FALSE, judged |-> 0,
               attempt |-> 0, answered |-> FALSE, answer |-> <<>>,
               backoff |-> 0, slept |-> <<>>, raised |-> FALSE]
    /\ hookOut = NoOutput
    /\ storeBefore = [s \in SettingsIds |-> NoFile]

\* the lookup script does not run
InitNoLookup == lookup = NoLookup

\* no hook has run
NoEvent == [kind |-> "none", p |-> NoProc, pc |-> "idle", input |-> NoEventInput,
            call |-> Idle, base |-> 0,
            registry |-> [exists |-> FALSE, bytes |-> <<>>]]
InitNoEvent == event = NoEvent /\ events = 0

\* no settings file, no settings call
InitNoSettings ==
    /\ sfile = [s \in SettingsIds |-> [exists |-> FALSE, bytes |-> <<>>]]
    /\ spc = [p \in Procs |-> "idle"]
    /\ sop = [p \in Procs |-> SettingsIdle]
    /\ sdoc = [p \in Procs |-> NoSettings]
    /\ sdone = <<>>

InitProcs ==
    /\ InitNoSettings
    /\ InitNoScan
    /\ InitNoHook
    /\ InitNoLookup
    /\ InitNoEvent
    /\ lockedBy = [i \in Inodes |-> NoProc]
    /\ polls = [p \in Procs |-> 0]
    /\ pc = [p \in Procs |-> "idle"]
    /\ op = [p \in Procs |-> Idle]
    /\ data = [p \in Procs |-> EmptyStructure]
    /\ fd = [p \in Procs |-> NoInode]
    /\ now = 2
    /\ done = <<>>
    /\ started = 0
    /\ timedOut = FALSE

Init ==
    /\ InitProcs
    /\ \/ /\ names = [n \in FileNames |-> NoInode]
          /\ content = [i \in Inodes |-> <<>>]
       \/ \E d \in InitialDocuments \ {EmptyStructure} :
          /\ names = [n \in FileNames |->
                        IF n = SESSIONS_FILE THEN 1 ELSE NoInode]
          /\ content = [i \in Inodes |-> IF i = 1 THEN JsonDump(d) ELSE <<>>]
    /\ initial = content[1]
    /\ before = RegistryFile
    /\ sequential = FALSE

(***************************************************************************)
(* Steps of a process                                                      *)
(***************************************************************************)
Quiescent == \A p \in Procs : pc[p] \in {"idle", "crashed"}
Alone(p) == \A q \in Procs \ {p} : pc[q] \in {"idle", "crashed"}

\* the scheduling of the hook processes
Runnable(p) == sequential => Alone(p)

\* read_sessions returns d: the caller modifies it, stamps last_updated with
\* time.time() and goes on to write_sessions(data)
AfterRead(p, d) ==
    /\ pc' = [pc EXCEPT ![p] = "open_w"]
    /\ data' = [data EXCEPT ![p] = Modify(op[p], d, now)]
    /\ now' = now + 1
    /\ before' = RegistryFile

\* a hook process calls add_session, remove_session or update_session, which
\* begins with read_sessions: if not os.path.exists(SESSIONS_FILE)
Call(p, calls) ==
    /\ pc[p] = "idle"
    /\ Runnable(p)
    /\ started < MaxOps
    /\ started' = started + 1
    /\ \E o \in calls :
        /\ op' = [op EXCEPT ![p] = o]
        /\ IF RegistryExists
           THEN /\ pc' = [pc EXCEPT ![p] = "open_r"]
                /\ UNCHANGED <<data, now, before>>
           ELSE /\ pc' = [pc EXCEPT ![p] = "open_w"]
                /\ data' = [data EXCEPT ![p] = Modify(o, EmptyStructure, now)]
                /\ now' = now + 1
                /\ before' = RegistryFile
    /\ UNCHANGED <<names, content, lockedBy, fd, done, timedOut, fixed>>

\* read_sessions: open(SESSIONS_FILE, 'r')
ReadOpen(p) ==
    /\ pc[p] = "open_r"
    /\ Runnable(p)
    /\ IF RegistryExists
       THEN /\ fd' = [fd EXCEPT ![p] = names[SESSIONS_FILE]]
            /\ pc' = [pc EXCEPT ![p] = "lock_r"]
            /\ UNCHANGED <<data, now, before>>
       ELSE /\ AfterRead(p, EmptyStructure)      \* IOError
            /\ UNCHANGED fd
    /\ UNCHANGED <<names, content, lockedBy, op, done, started, timedOut,
                   fixed>>

AfterLock(p) == IF pc[p] = "lock_r" THEN "load" ELSE "dump"

\* acquire_lock: flock(LOCK_EX | LOCK_NB) succeeds
AcquireLock(p) ==
    /\ pc[p] \in {"lock_r", "lock_w"}
    /\ Runnable(p)
    /\ lockedBy[fd[p]] = NoProc
    /\ lockedBy' = [lockedBy EXCEPT ![fd[p]] = p]
    /\ pc' = [pc EXCEPT ![p] = AfterLock(p)]
    /\ UNCHANGED <<names, content, op, data, fd, now, done, started, timedOut,
                   before, fixed>>

\* acquire_lock: the lock is held elsewhere until the timeout has elapsed;
\* False is returned and the caller goes on without the lock
LockTimeout(p) ==
    /\ pc[p] \in {"lock_r", "lock_w"}
    /\ Runnable(p)
    /\ lockedBy[fd[p]] # NoProc
    /\ timedOut' = TRUE
    /\ pc' = [pc EXCEPT ![p] = AfterLock(p)]
    /\ UNCHANGED <<names, content, lockedBy, op, data, fd, now, done, started,
                   before, fixed>>

\* read_sessions: data = json.load(f); JSONDecodeError gives the empty structure
ReadLoad(p) ==
    /\ pc[p] = "load"
    /\ Runnable(p)
    /\ data' = [data EXCEPT ![p] =
                  IF IsDocument(content[fd[p]]) THEN JsonLoad(content[fd[p]])
                  ELSE EmptyStructure]
    /\ pc' = [pc EXCEPT ![p] = "unlock_r"]
    /\ UNCHANGED <<names, content, lockedBy, op, fd, now, done, started,
                   timedOut, before, fixed>>

\* release_lock(f): flock(LOCK_UN) drops the lock of this open file only
Released(p) ==
    [i \in Inodes |-> IF lockedBy[i] = p THEN NoProc ELSE lockedBy[i]]

\* read_sessions: finally release_lock(f), the file is closed, data returned
ReadUnlock(p) ==
    /\ pc[p] = "unlock_r"
    /\ Runnable(p)
    /\ lockedBy' = Released(p)
    /\ fd' = [fd EXCEPT ![p] = NoInode]
    /\ content' = Reclaim(names, fd', content)
    /\ AfterRead(p, data[p])
    /\ UNCHANGED <<names, op, done, started, timedOut, fixed>>

\* write_sessions: temp_file = SESSIONS_FILE + ".tmp"
WriteInPlace == SESSIONS_FILE
temp_file == TEMP_FILE

\* write_sessions: open(temp_file, 'w') creates the file or truncates it
WriteOpen(p) ==
    /\ pc[p] = "open_w"
    /\ Runnable(p)
    /\ LET i == IF names[temp_file] = NoInode THEN FreshInode
                ELSE names[temp_file]
       IN  /\ names' = [names EXCEPT ![temp_file] = i]
           /\ content' = [content EXCEPT ![i] = <<>>]
           /\ fd' = [fd EXCEPT ![p] = i]
    /\ pc' = [pc EXCEPT ![p] = "lock_w"]
    /\ UNCHANGED <<lockedBy, op, data, now, done, started, timedOut, before, fixed>>

\* write_sessions: json.dump(data, f, indent=2); f.flush(); os.fsync
WriteDump(p) ==
    /\ pc[p] = "dump"
    /\ Runnable(p)
    /\ content' = [content EXCEPT ![fd[p]] = WriteAt0(@, JsonDump(data[p]))]
    /\ pc' = [pc EXCEPT ![p] = "unlock_w"]
    /\ UNCHANGED <<names, lockedBy, op, data, fd, now, done, started, timedOut,
                   before, fixed>>

\* write_sessions: finally release_lock(f), the with block closes the file
WriteUnlock(p) ==
    /\ pc[p] = "unlock_w"
    /\ Runnable(p)
    /\ lockedBy' = Released(p)
    /\ fd' = [fd EXCEPT ![p] = NoInode]
    /\ content' = Reclaim(names, fd', content)
    /\ pc' = [pc EXCEPT ![p] = "rename"]
    /\ UNCHANGED <<names, op, data, now, done, started, timedOut, before, fixed>>

\* os.rename(temp_file, SESSIONS_FILE): the directory after it
Renamed(nm) ==
    [n \in FileNames |->
        IF n = SESSIONS_FILE THEN nm[temp_file]
        ELSE IF n = temp_file THEN NoInode ELSE nm[n]]

\* write_sessions: os.rename; return True, or False when it raised
WriteRename(p) ==
    /\ pc[p] = "rename"
    /\ Runnable(p)
    /\ names' = IF names[temp_file] = NoInode THEN names ELSE Renamed(names)
    /\ content' = Reclaim(names', fd, content)
    /\ done' = Append(done, [p |-> p, call |-> op[p],
                             ret |-> names[temp_file] # NoInode])
    /\ pc' = [pc EXCEPT ![p] = "idle"]
    /\ op' = [op EXCEPT ![p] = Idle]
    /\ data' = [data EXCEPT ![p] = EmptyStructure]
    /\ UNCHANGED <<lockedBy, fd, now, started, timedOut, before, fixed>>

\* the process dies (kill, power loss): the kernel closes its file and drops
\* its lock
Crashed(p) ==
    /\ pc' = [pc EXCEPT ![p] = "crashed"]
    /\ lockedBy' = Released(p)
    /\ fd' = [fd EXCEPT ![p] = NoInode]
    /\ op' = [op EXCEPT ![p] = Idle]
    /\ data' = [data EXCEPT ![p] = EmptyStructure]
    /\ UNCHANGED <<names, now, done, started, timedOut, before, fixed>>

\* a crash between two system calls
Crash(p) ==
    /\ pc[p] \notin {"idle", "crashed"}
    /\ Runnable(p)
    /\ Crashed(p)
    /\ content' = Reclaim(names, fd', content)

\* a crash while json.dump / flush is writing: part of the text is in the file
CrashInDump(p) ==
    /\ pc[p] = "dump"
    /\ Runnable(p)
    /\ Crashed(p)
    /\ \E k \in 1..(Len(JsonDump(data[p])) - 1) :
         content' = Reclaim(names, fd',
                       [content EXCEPT ![fd[p]] =
                           WriteAt0(@, SubSeq(JsonDump(data[p]), 1, k))])

\* the steps of a process that never waits for a lock
StepAlone(p, calls) ==
    \/ Call(p, calls)
    \/ ReadOpen(p)
    \/ AcquireLock(p)
    \/ ReadLoad(p)
    \/ ReadUnlock(p)
    \/ WriteOpen(p)
    \/ WriteDump(p)
    \/ WriteUnlock(p)
    \/ WriteRename(p)

(***************************************************************************)
(* Spec: the hook processes run concurrently.                              *)
(***************************************************************************)
Next == \E p \in Procs : StepAlone(p, ConcurrentCalls) \/ LockTimeout(p)

Spec == Init /\ [][Next]_vars

(***************************************************************************)
(* SpecLock: acquire_lock with its clock.  The time a process has waited   *)
(* is the number of its polls that found the lock held, one poll interval  *)
(* apart; MaxPolls is the timeout in poll intervals.  Process p1 is        *)
(* scheduled again and again; the other process may stop for good at any   *)
(* step, also while it holds a lock.                                       *)
(***************************************************************************)
MaxPolls == 2      \* timeout / poll interval

\* what acquire_lock leaves alone
beyondLock == <<names, content, op, data, fd, now, done, started, before,
                initial, sequential, settingsVars, scanVars, hookVars>>

\* flock(LOCK_EX | LOCK_NB) succeeds: return True
LockObtained(p) ==
    /\ pc[p] \in {"lock_r", "lock_w"}
    /\ lockedBy[fd[p]] = NoProc
    /\ lockedBy' = [lockedBy EXCEPT ![fd[p]] = p]
    /\ pc' = [pc EXCEPT ![p] = AfterLock(p)]
    /\ polls' = [polls EXCEPT ![p] = 0]
    /\ UNCHANGED <<timedOut, beyondLock>>

\* IOError, the timeout has not elapsed: time.sleep(0.1)
LockPoll(p) ==
    /\ pc[p] \in {"lock_r", "lock_w"}
    /\ lockedBy[fd[p]] # NoProc
    /\ polls[p] < MaxPolls
    /\ polls' = [polls EXCEPT ![p] = @ + 1]
    /\ UNCHANGED <<lockedBy, pc, timedOut, beyondLock>>

\* a flock that waits for the lock (no LOCK_NB, no timeout)
LockWaits(p) ==
    /\ pc[p] \in {"lock_r", "lock_w"}
    /\ lockedBy[fd[p]] # NoProc
    /\ polls[p] = MaxPolls
    /\ UNCHANGED <<lockedBy, pc, polls, timedOut, beyondLock>>

\* IOError, the timeout has elapsed: return False
LockExpired(p) ==
    /\ pc[p] \in {"lock_r", "lock_w"}
    /\ lockedBy[fd[p]] # NoProc
    /\ polls[p] = MaxPolls
    /\ timedOut' = TRUE
    /\ pc' = [pc EXCEPT ![p] = AfterLock(p)]
    /\ polls' = [polls EXCEPT ![p] = 0]
    /\ UNCHANGED <<lockedBy, beyondLock>>

\* the calls of the two processes
LockCalls == {c \in ConcurrentCalls : c.sid = "s1" /\ c.kind # "add"}

LockStep(p) ==
    \/ Call(p, LockCalls)
    \/ ReadOpen(p)
    \/ LockObtained(p)
    \/ LockPoll(p)
    \/ LockExpired(p)
    \/ ReadLoad(p)
    \/ ReadUnlock(p)
    \/ WriteOpen(p)
    \/ WriteDump(p)
    \/ WriteUnlock(p)
    \/ WriteRename(p)

LockNext == \E p \in Procs : LockStep(p)

InitLock == Init

SpecLock == InitLock /\ [][LockNext]_vars /\ WF_vars(LockStep("p1"))

(***************************************************************************)
(* SpecSeq: the calls run one after another (a process starts or continues *)
(* only while no other is inside a call), and a process may crash at any   *)
(* step.  The registry file is an input of the program here: it may hold   *)
(* any bytes, also a document with repeated ids or a truncated one.        *)
(***************************************************************************)
RepeatedIds ==
    [sessions |-> <<SessionData("s1", "/a"), SessionData("s2", "/a"),
                    SessionData("s1", "/b")>>,
     last_updated |-> 1]

InitialBytes ==
    {JsonDump(d) : d \in InitialDocuments \cup {RepeatedIds}}
    \cup {<<[t |-> "{"]>>}

InitSeq ==
    /\ InitProcs
    /\ \/ /\ names = [n \in FileNames |-> NoInode]
          /\ content = [i \in Inodes |-> <<>>]
       \/ \E b \in InitialBytes :
          /\ names = [n \in FileNames |->
                        IF n = SESSIONS_FILE THEN 1 ELSE NoInode]
          /\ content = [i \in Inodes |-> IF i = 1 THEN b ELSE <<>>]
    /\ initial = content[1]
    /\ before = RegistryFile
    /\ sequential = TRUE

NextSeq ==
    \E p \in Procs : StepAlone(p, Calls) \/ Crash(p) \/ CrashInDump(p)

SpecSeq == InitSeq /\ [][NextSeq]_vars

(***************************************************************************)
(* session_settings: the steps of load_settings, save_settings and         *)
(* get_metadata.  A settings file is opened by its path and written in     *)
(* place.                                                                  *)
(***************************************************************************)
SettingsQuiescent == \A p \in Procs : spc[p] = "idle"
SettingsRunnable(p) ==
    sequential => \A q \in Procs \ {p} : spc[q] = "idle"

\* the call returns: load_settings its dict, get_metadata the approval mode
\* read with the default "ai", save_settings None
Returns(p, o, d) ==
    /\ sdone' = Append(sdone, [p |-> p, call |-> o, ret |-> d,
                               val |-> GetMetadata(d, "approval_mode", "ai")])
    /\ spc' = [spc EXCEPT ![p] = "idle"]
    /\ sop' = [sop EXCEPT ![p] = SettingsIdle]
    /\ sdoc' = [sdoc EXCEPT ![p] = NoSettings]

Continues(p, o, pos, d) ==
    /\ spc' = [spc EXCEPT ![p] = pos]
    /\ sop' = [sop EXCEPT ![p] = o]
    /\ sdoc' = [sdoc EXCEPT ![p] = d]
    /\ UNCHANGED sdone

\* load_settings, treating a file that exists as one that does not
LoadSettingsSavesDefaults(p, o) ==
    IF o.sid = ""
    THEN Returns(p, o, GetDefaultSettings("unknown", now)) /\ now' = now + 1
    ELSE /\ Continues(p, o, "open_w",
                      Stamped(GetDefaultSettings(o.sid, now), now + 1))
         /\ now' = now + 2

\* load_settings up to settings_path.exists()
LoadSettings(p, o) ==
    IF o.sid = ""
    THEN Returns(p, o, GetDefaultSettings("unknown", now)) /\ now' = now + 1
    ELSE IF sfile[o.sid].exists
    THEN Continues(p, o, "open_r", NoSettings) /\ UNCHANGED now
    ELSE \* default_settings, and save_settings up to the timestamp
         /\ Continues(p, o, "open_w",
                      Stamped(GetDefaultSettings(o.sid, now), now + 1))
         /\ now' = now + 2

\* save_settings up to the timestamp
SaveSettings(p, o) ==
    IF o.sid = ""
    THEN Returns(p, o, o.arg) /\ UNCHANGED now
    ELSE Continues(p, o, "open_w", Stamped(o.arg, now)) /\ now' = now + 1

\* a process calls load_settings, get_metadata or save_settings
SettingsCall(p) ==
    /\ spc[p] = "idle"
    /\ SettingsRunnable(p)
    /\ started < MaxOps
    /\ started' = started + 1
    /\ \E c \in SettingsCalls :
         LET o == [kind |-> c.kind, sid |-> c.sid, arg |-> c.arg,
                   pre |-> sfile[c.sid]]
         IN  IF c.kind = "save" THEN SaveSettings(p, o) ELSE LoadSettings(p, o)
    /\ UNCHANGED <<sfile, registryVars, scanVars, hookVars, sequential>>

\* load_settings: open(settings_path, 'r')
SettingsOpenRead(p) ==
    /\ spc[p] = "open_r"
    /\ SettingsRunnable(p)
    /\ spc' = [spc EXCEPT ![p] = "read"]
    /\ UNCHANGED <<sfile, sop, sdoc, sdone, now, started, registryVars, scanVars, hookVars,
                   sequential>>

\* load_settings: return json.load(f), or the defaults on JSONDecodeError
SettingsRead(p) ==
    /\ spc[p] = "read"
    /\ SettingsRunnable(p)
    /\ LET bytes == sfile[sop[p].sid].bytes
       IN  IF IsSettingsDocument(bytes)
           THEN Returns(p, sop[p], SettingsLoad(bytes)) /\ UNCHANGED now
           ELSE /\ Returns(p, sop[p], GetDefaultSettings(sop[p].sid, now))
                /\ now' = now + 1
    /\ UNCHANGED <<sfile, started, registryVars, scanVars, hookVars, sequential>>

\* save_settings: open(settings_path, 'w') creates the file or truncates it
SettingsOpenWrite(p) ==
    /\ spc[p] = "open_w"
    /\ SettingsRunnable(p)
    /\ sfile' = [sfile EXCEPT ![sop[p].sid] = [exists |-> TRUE, bytes |-> <<>>]]
    /\ spc' = [spc EXCEPT ![p] = "write"]
    /\ UNCHANGED <<sop, sdoc, sdone, now, started, registryVars, scanVars, hookVars, sequential>>

\* save_settings: json.dump(settings, f, indent=2), written as the file closes
SettingsWrite(p) ==
    /\ spc[p] = "write"
    /\ SettingsRunnable(p)
    /\ sfile' = [sfile EXCEPT ![sop[p].sid].bytes =
                     WriteAt0(@, SettingsDump(sdoc[p]))]
    /\ Returns(p, sop[p], sdoc[p])
    /\ UNCHANGED <<now, started, registryVars, scanVars, hookVars, sequential>>

SettingsNext ==
    \E p \in Procs :
        \/ SettingsCall(p)
        \/ SettingsOpenRead(p)
        \/ SettingsRead(p)
        \/ SettingsOpenWrite(p)
        \/ SettingsWrite(p)

\* the registry is not used; the settings file of s1 is absent, truncated, or
\* holds a document
InitialSettingsBytes ==
    {<<[t |-> "{"]>>, SettingsDump(NoApprovalMode),
     SettingsDump(Stamped(Settings("strict"), 1))}

InitSettingsStore ==
    /\ InitNoScan
    /\ InitNoHook
    /\ InitNoLookup
    /\ InitNoEvent
    /\ names = [n \in FileNames |-> NoInode]
    /\ content = [i \in Inodes |-> <<>>]
    /\ initial = <<>>
    /\ before = RegistryFile
    /\ lockedBy = [i \in Inodes |-> NoProc]
    /\ polls = [p \in Procs |-> 0]
    /\ pc = [p \in Procs |-> "idle"]
    /\ op = [p \in Procs |-> Idle]
    /\ data = [p \in Procs |-> EmptyStructure]
    /\ fd = [p \in Procs |-> NoInode]
    /\ now = 2
    /\ done = <<>>
    /\ started = 0
    /\ timedOut = FALSE
    /\ spc = [p \in Procs |-> "idle"]
    /\ sop = [p \in Procs |-> SettingsIdle]
    /\ sdoc = [p \in Procs |-> NoSettings]
    /\ sdone = <<>>
    /\ \/ sfile = [s \in SettingsIds |-> NoFile]
       \/ \E b \in InitialSettingsBytes :
            sfile = [s \in SettingsIds |->
                        IF s = "s1" THEN [exists |-> TRUE, bytes |-> b]
                        ELSE NoFile]

\* SpecSettings: the processes run concurrently
InitSettings == InitSettingsStore /\ sequential = FALSE
SpecSettings == InitSettings /\ [][SettingsNext]_vars

\* SpecSettingsSeq: the calls run one after another
InitSettingsSeq == InitSettingsStore /\ sequential = TRUE
SpecSettingsSeq == InitSettingsSeq /\ [][SettingsNext]_vars

(***************************************************************************)
(* stop-hook: parse_latest_todos.  A transcript is a sequence of lines; a  *)
(* line is text that is not JSON, JSON that is not an object, or a record  *)
(* with its message and the content blocks of the message.  A text is a    *)
(* sequence of pieces, the apostrophe and the double quote being pieces of *)
(* their own, so that str() of a value can be told from the value.         *)
(***************************************************************************)
MaxLines == 3      \* lines of a transcript

Apostrophe == "'"
DoubleQuote == "\""
Backslash == "\\"

\* "doesn't want to proceed"
RejectionPhrase == <<"doesn", Apostrophe, "t want to proceed">>

Pieces(text) == {text[i] : i \in DOMAIN text}

\* phrase in text
Contains(text, phrase) ==
    \E i \in 0..(Len(text) - Len(phrase)) :
        \A j \in 1..Len(phrase) : text[i + j] = phrase[j]

RECURSIVE Escaped(_)
\* the text with a backslash before every apostrophe
Escaped(text) ==
    IF text = <<>> THEN <<>>
    ELSE (IF Head(text) = Apostrophe THEN <<Backslash, Apostrophe>>
          ELSE <<Head(text)>>) \o Escaped(Tail(text))

\* repr() of a Python str: double quotes are chosen when the text has an
\* apostrophe and no double quote; with both, the apostrophes are escaped
Repr(text) ==
    IF Apostrophe \in Pieces(text) /\ DoubleQuote \notin Pieces(text)
    THEN <<DoubleQuote>> \o text \o <<DoubleQuote>>
    ELSE <<Apostrophe>> \o Escaped(text) \o <<Apostrophe>>

\* the "content" of a tool_result: absent or null, a string, or a list of one
\* text block
NoContent == [kind |-> "none", text |-> <<>>]
Text(t) == [kind |-> "text", text |-> t]
TextBlocks(t) == [kind |-> "blocks", text |-> t]

\* `error` as a condition
Truthy(c) ==
    \/ c.kind = "text" /\ c.text # <<>>
    \/ c.kind = "blocks"

\* str(error): a string is itself, a list is the repr of its elements
Str(c) ==
    IF c.kind = "blocks"
    THEN <<"[{", Apostrophe, "type", Apostrophe, ": ", Apostrophe, "text",
           Apostrophe, ", ", Apostrophe, "text", Apostrophe, ": ">>
         \o Repr(c.text) \o <<"}]">>
    ELSE IF c.kind = "text" THEN c.text
    ELSE <<"None">>

\* Optional[List]: None or a list
None == [some |-> FALSE, v |-> <<>>]
Some(list) == [some |-> TRUE, v |-> list]

ToolUse(name, id, payload) ==
    [type |-> "tool_use", name |-> name, id |-> id, todos |-> payload]
ToolResult(tool_use_id, c) ==
    [type |-> "tool_result", tool_use_id |-> tool_use_id, content |-> c]

Todo(c, status) == [content |-> c, status |-> status]

\* what json.loads(line) and the two .get calls make of a line
Line(kind, blocks) == [kind |-> kind, content |-> blocks]
Skipped == {"invalid"}                       \* json.JSONDecodeError: continue
Raising == {"array", "null_message", "null_content"}  \* AttributeError, TypeError

Rejection == <<"The user ">> \o RejectionPhrase
RejectionWithQuote == Rejection \o <<": ", DoubleQuote, "no", DoubleQuote>>
Contents ==
    {NoContent, Text(<<"ok">>), Text(Rejection),
     TextBlocks(Rejection), TextBlocks(RejectionWithQuote)}
Payloads ==
    {None, Some(<<>>), Some(<<Todo("A", "pending"), Todo("B", "completed")>>)}

TranscriptBlocks ==
    {ToolUse("TodoWrite", "t1", pl) : pl \in Payloads}
    \cup {ToolUse("TodoWrite", "t2", pl) : pl \in Payloads \ {None}}
    \cup {ToolUse("Bash", "t2", None)}
    \cup {ToolResult("t1", c) : c \in Contents}

TranscriptLines ==
    {Line(k, <<>>) : k \in Skipped \cup Raising \cup {"no_message"}}
    \cup {Line("message", <<b>>) : b \in TranscriptBlocks}
    \cup {Line("message", <<ToolResult("t1", Text(Rejection)),
                            ToolUse("TodoWrite", "t2", Some(<<>>))>>)}

RECURSIVE SeqsUpTo(_, _)
SeqsUpTo(S, n) ==
    IF n = 0 THEN {<<>>}
    ELSE LET shorter == SeqsUpTo(S, n - 1)
         IN  shorter \cup {Append(q, x) : q \in shorter, x \in S}

Transcripts ==
    {[exists |-> FALSE, readable |-> FALSE, lines |-> <<>>],
     [exists |-> TRUE, readable |-> FALSE, lines |-> <<>>]}
    \cup {[exists |-> TRUE, readable |-> TRUE, lines |-> ls] :
            ls \in SeqsUpTo(TranscriptLines, MaxLines)}

\* first pass, one line: the ids of the results that carry the phrase
RejectedIn(line) ==
    {line.content[i].tool_use_id : i \in
        {j \in DOMAIN line.content :
            LET item == line.content[j]
            IN  /\ item.type = "tool_result"
                /\ Truthy(item.content)
                /\ Contains(Str(item.content), RejectionPhrase)
                /\ item.tool_use_id # ""}}

\* `if extracted:` in place of `if extracted is not None:`
TakesNonEmpty(item) == item.todos.some /\ item.todos.v # <<>>

\* second pass, one block: `todos = extracted`
Takes(item) == item.todos.some

\* second pass, one line: the block that sets `todos` last, 0 if none does
LastTaken(line, rejected) ==
    LET hits == {j \in DOMAIN line.content :
                    LET item == line.content[j]
                    IN  /\ item.type = "tool_use"
                        /\ item.name = "TodoWrite"
                        /\ item.id \notin rejected
                        /\ Takes(item)}
    IN  IF hits = {} THEN 0 ELSE CHOOSE j \in hits : \A k \in hits : k <= j

\* get_pending_todos
get_pending_todos(t) ==
    IF ~t.some \/ t.v = <<>> THEN <<>>
    ELSE SelectSeq(t.v, LAMBDA x : x.status \in {"pending", "in_progress"})

\* what parse_latest_todos leaves alone
beyondScan == <<registryVars, settingsVars, hookVars, sequential, now, started>>

\* os.path.exists(transcript_path), and the open of the first pass
ScanOpen ==
    /\ scanPc = "start"
    /\ scanPc' = IF transcript.exists /\ transcript.readable THEN "pass1"
                 ELSE "returned"
    /\ lineNo' = 1
    /\ UNCHANGED <<transcript, rejected_tool_ids, todos, taken, beyondScan>>

\* first pass, one line
FirstPassLine ==
    /\ scanPc = "pass1"
    /\ lineNo <= Len(transcript.lines)
    /\ LET line == transcript.lines[lineNo]
       IN  IF line.kind \in Raising
           THEN \* except Exception: the function returns `todos`
                /\ scanPc' = "returned"
                /\ UNCHANGED <<lineNo, rejected_tool_ids>>
           ELSE /\ lineNo' = lineNo + 1
                /\ rejected_tool_ids' =
                      IF line.kind \in Skipped THEN rejected_tool_ids
                      ELSE rejected_tool_ids \cup RejectedIn(line)
                /\ UNCHANGED scanPc
    /\ UNCHANGED <<transcript, todos, taken, beyondScan>>

\* the first pass is over: the open of the second pass
SecondPassOpen ==
    /\ scanPc = "pass1"
    /\ lineNo > Len(transcript.lines)
    /\ scanPc' = "pass2"
    /\ lineNo' = 1
    /\ UNCHANGED <<transcript, rejected_tool_ids, todos, taken, beyondScan>>

\* second pass, one line
SecondPassLine ==
    /\ scanPc = "pass2"
    /\ lineNo <= Len(transcript.lines)
    /\ LET line == transcript.lines[lineNo]
           j == LastTaken(line, rejected_tool_ids)
       IN  IF line.kind \in Raising
           THEN /\ scanPc' = "returned"
                /\ UNCHANGED <<lineNo, todos, taken>>
           ELSE /\ lineNo' = lineNo + 1
                /\ IF line.kind \in Skipped \/ j = 0
                   THEN UNCHANGED <<todos, taken>>
                   ELSE /\ todos' = line.content[j].todos
                        /\ taken' = <<lineNo, j>>
                /\ UNCHANGED scanPc
    /\ UNCHANGED <<transcript, rejected_tool_ids, beyondScan>>

\* return todos
ScanReturn ==
    /\ scanPc = "pass2"
    /\ lineNo > Len(transcript.lines)
    /\ scanPc' = "returned"
    /\ UNCHANGED <<transcript, lineNo, rejected_tool_ids, todos, taken,
                   beyondScan>>

ScanNext ==
    \/ ScanOpen
    \/ FirstPassLine
    \/ SecondPassOpen
    \/ SecondPassLine
    \/ ScanReturn

\* parse_latest_todos(transcript_path) is called on a transcript
InitScan ==
    /\ transcript \in Transcripts
    /\ scanPc = "start"
    /\ lineNo = 0
    /\ rejected_tool_ids = {}
    /\ todos = None
    /\ taken = <<0, 0>>
    /\ InitNoSettings
    /\ InitNoHook
    /\ InitNoLookup
    /\ InitNoEvent
    /\ names = [n \in FileNames |-> NoInode]
    /\ content = [i \in Inodes |-> <<>>]
    /\ initial = <<>>
    /\ before = RegistryFile
    /\ lockedBy = [i \in Inodes |-> NoProc]
    /\ polls = [p \in Procs |-> 0]
    /\ pc = [p \in Procs |-> "idle"]
    /\ op = [p \in Procs |-> Idle]
    /\ data = [p \in Procs |-> EmptyStructure]
    /\ fd = [p \in Procs |-> NoInode]
    /\ now = 2
    /\ done = <<>>
    /\ started = 0
    /\ timedOut = FALSE
    /\ sequential = TRUE

SpecScan == InitScan /\ [][ScanNext]_vars

(***************************************************************************)
(* approval-hook: is_safe_operation, judge_with_grok and main.  One run of *)
(* the hook: it reads its input, reads the approval mode through           *)
(* get_metadata (the steps of load_settings above), and decides.           *)
(***************************************************************************)
ReadOnlyTools == {"Read", "Grep", "Glob"}

CoreToolsWithoutExitPlanMode ==
    {"TodoWrite", "Task", "Skill", "SlashCommand", "AskUserQuestion"}

core_claude_tools ==
    {"TodoWrite", "Task", "Skill", "SlashCommand", "AskUserQuestion",
     "ExitPlanMode"}

safe_temp_dirs ==
    {<<Slash, "tmp", Slash>>, <<Slash, "var", Slash, "tmp", Slash>>,
     <<Slash, "private", Slash, "tmp", Slash>>}

\* text.startswith(prefix)
StartsWith(text, prefix) ==
    /\ Len(text) >= Len(prefix)
    /\ SubSeq(text, 1, Len(prefix)) = prefix

\* is_safe_operation(tool_name, tool_input, cwd)[0]
is_safe_operation(tool_name, file_path) ==
    \/ tool_name \in ReadOnlyTools
    \/ tool_name \in core_claude_tools
    \/ /\ tool_name \in {"Write", "Edit"}
       /\ \E temp_dir \in safe_temp_dirs : StartsWith(file_path, temp_dir)

\* input_data.get("tool_name")
ToolNames ==
    {"Read", "Grep", "Glob", "TodoWrite", "Task", "Skill", "SlashCommand",
     "AskUserQuestion", "ExitPlanMode", "Write", "Edit", "Bash"}

FilePaths ==
    {NoPath,
     <<Slash, "tmp", Slash, "x.txt">>,
     <<Slash, "var", Slash, "tmp", Slash, "x.txt">>,
     <<Slash, "private", Slash, "tmp", Slash, "x.txt">>,
     <<Slash, "tmp", Slash, "..", Slash, "etc", Slash, "passwd">>,
     <<Slash, "tmp", Slash, "d", Slash, "..", Slash, "x.txt">>,
     <<Slash, "tmpx", Slash, "x.txt">>,
     <<Slash, "home", Slash, "x.txt">>}

\* the hook input on standard input: not JSON, or the fields main() reads
HookInputs ==
    {NoInput}
    \cup {[valid |-> TRUE, session_id |-> s, tool_name |-> t, file_path |-> f] :
            s \in SettingsIds, t \in {"Write", "Edit"}, f \in FilePaths}
    \cup {[valid |-> TRUE, session_id |-> s, tool_name |-> t,
           file_path |-> NoPath] :
            s \in SettingsIds, t \in ToolNames \ {"Write", "Edit"}}

WhiteSpace == {" ", "\n"}

RECURSIVE LStrip(_)
LStrip(text) ==
    IF text # <<>> /\ Head(text) \in WhiteSpace THEN LStrip(Tail(text))
    ELSE text

RECURSIVE RStrip(_)
RStrip(text) ==
    IF text # <<>> /\ text[Len(text)] \in WhiteSpace
    THEN RStrip(SubSeq(text, 1, Len(text) - 1))
    ELSE text

\* str.strip()
Strip(text) == RStrip(LStrip(text))

UpperWord(w) ==
    CASE w \in {"allow", "Allow"} -> "ALLOW"
      [] w \in {"deny", "Deny"} -> "DENY"
      [] w \in {"ask", "Ask"} -> "ASK"
      [] w = "maybe" -> "MAYBE"
      [] OTHER -> w

LowerWord(w) ==
    CASE w = "ALLOW" -> "allow"
      [] w = "DENY" -> "deny"
      [] w = "ASK" -> "ask"
      [] w = "MAYBE" -> "maybe"
      [] OTHER -> w

\* str.upper()
Upper(text) == [i \in DOMAIN text |-> UpperWord(text[i])]

\* what client.chat(messages) can return
Answers ==
    {<<"ALLOW">>, <<"DENY">>, <<"ASK">>, <<"allow">>, <<" ", "Deny", "\n">>,
     <<"ALLOW", ".">>, <<"maybe">>, <<>>}

\* judge_with_grok without the validation of the response
JudgeDecisionUnvalidated(answer) ==
    LET response == Upper(Strip(answer))
    IN  IF Len(response) = 1 THEN LowerWord(response[1]) ELSE "ask"

\* judge_with_grok: the response, stripped and upper-cased, is validated
JudgeDecision(answer) ==
    LET response == Upper(Strip(answer))
    IN  IF response \in {<<"ALLOW">>, <<"DENY">>, <<"ASK">>}
        THEN LowerWord(response[1])
        ELSE "ask"

Attempts == 7      \* for attempt in range(7)
InitialBackoff == 1        \* backoff = 1.0
MaxBackoff == 16           \* min(backoff * 2, 16.0)

\* backoff * 2, without the cap
BackoffUncapped(backoff) == backoff * 2

\* backoff = min(backoff * 2, 16.0)
Backoff(backoff) ==
    IF backoff * 2 < MaxBackoff THEN backoff * 2 ELSE MaxBackoff

Output(decision, reason, named) ==
    [decision |-> decision, reason |-> reason, named |-> named, exit |-> 0]

\* strict and auto, the wrong way round
FixedDecisionSwapped(approval_mode) ==
    IF approval_mode = "strict" THEN Output("allow", "auto", "")
    ELSE Output("ask", "strict", "")

\* what main() prints in strict and in auto mode
FixedDecision(approval_mode) ==
    IF approval_mode = "strict" THEN Output("ask", "strict", "")
    ELSE Output("allow", "auto", "")

DisabledUnknown == "off"
Disabled == "disabled"

\* the unknown mode left out of the reason
UnknownModeUnnamed(approval_mode) == Output("ask", "unknown", "")

\* "Unknown approval mode '{approval_mode}' - defaulting to ask"
UnknownMode(approval_mode) == Output("ask", "unknown", approval_mode)

\* what the hook's own steps leave alone
beyondHook ==
    <<registryVars, scanVars, sfile, storeBefore, lookup, event, events,
      sequential, started>>

\* print(json.dumps(output)); sys.exit(0)
Exits(output) ==
    /\ hookOut' = output
    /\ hook' = [hook EXCEPT !.pc = "exited"]

\* main(): json.load(sys.stdin), and get_metadata up to settings_path.exists()
HookInput ==
    /\ hook.pc = "start"
    /\ IF ~hook.input.valid
       THEN \* except Exception: "Hook error: ... - defaulting to ask"
            /\ Exits(Output("ask", "error", ""))
            /\ UNCHANGED <<spc, sop, sdoc, sdone, now>>
       ELSE /\ hook' = [hook EXCEPT !.pc = "get_metadata"]
            /\ LoadSettings(hook.p,
                            [kind |-> "get_metadata",
                             sid |-> hook.input.session_id,
                             arg |-> NoSettings,
                             pre |-> sfile[hook.input.session_id]])
            /\ UNCHANGED hookOut
    /\ UNCHANGED beyondHook

\* main(): get_metadata has returned approval_mode; the modes in their order
HookDecide ==
    /\ hook.pc = "get_metadata"
    /\ spc[hook.p] = "idle"
    /\ LET approval_mode == sdone[Len(sdone)].val
           read == [hook EXCEPT !.approval_mode = approval_mode]
       IN  IF approval_mode = Disabled
           THEN /\ hook' = [read EXCEPT !.pc = "exited"]
                /\ hookOut' = [NoOutput EXCEPT !.exit = 0]
           ELSE IF approval_mode \in {"strict", "auto"}
           THEN /\ hook' = [read EXCEPT !.pc = "exited"]
                /\ hookOut' = FixedDecision(approval_mode)
           ELSE IF approval_mode = "ai"
           THEN IF is_safe_operation(hook.input.tool_name, hook.input.file_path)
                THEN /\ hook' = [read EXCEPT !.pc = "exited", !.rules = TRUE]
                     /\ hookOut' = Output("allow", "rule", "")
                ELSE /\ hook' = [read EXCEPT !.pc = "client", !.rules = TRUE,
                                             !.judged = @ + 1]
                     /\ UNCHANGED hookOut
           ELSE /\ hook' = [read EXCEPT !.pc = "exited"]
                /\ hookOut' = UnknownMode(approval_mode)
    /\ UNCHANGED <<beyondHook, spc, sop, sdoc, sdone, now>>

\* judge_with_grok: LangChainLLMClient(config) raises without the key or the
\* package, and the except branch returns "ask"
JudgeClient ==
    /\ hook.pc = "client"
    /\ \/ Exits(Output("ask", "judge", ""))
       \/ /\ hook' = [hook EXCEPT !.pc = "chat", !.backoff = InitialBackoff]
          /\ UNCHANGED hookOut
    /\ UNCHANGED <<beyondHook, spc, sop, sdoc, sdone, now>>

\* client.chat: one attempt; it returns the text of the response, or fails
\* and is tried again after time.sleep(backoff), the failure of the last
\* attempt being raised (judge_with_grok then returns "ask")
ChatAttempt ==
    /\ hook.pc = "chat"
    /\ \/ \E answer \in Answers :
            /\ hookOut' = Output(JudgeDecision(answer), "judge", "")
            /\ hook' = [hook EXCEPT !.pc = "exited", !.answered = TRUE,
                                    !.answer = answer]
       \/ /\ hook.attempt < Attempts - 1
          /\ hook' = [hook EXCEPT !.attempt = @ + 1,
                                  !.slept = Append(@, hook.backoff),
                                  !.backoff = Backoff(@)]
          /\ UNCHANGED hookOut
       \/ /\ hook.attempt = Attempts - 1
          /\ hookOut' = Output("ask", "judge", "")
          /\ hook' = [hook EXCEPT !.pc = "exited", !.raised = TRUE]
    /\ UNCHANGED <<beyondHook, spc, sop, sdoc, sdone, now>>

ApprovalNext ==
    \/ HookInput
    \/ HookDecide
    \/ JudgeClient
    \/ ChatAttempt
    \/ \E p \in Procs :
        \/ SettingsOpenRead(p)
        \/ SettingsRead(p)
        \/ SettingsOpenWrite(p)
        \/ SettingsWrite(p)

StoredModes == {"disabled", "strict", "auto", "ai", "yolo"}

\* the settings file of s1 is absent, truncated, or holds a document
ApprovalSettingsBytes ==
    {<<[t |-> "{"]>>, SettingsDump(NoApprovalMode)}
    \cup {SettingsDump(Stamped(Settings(mode), 1)) : mode \in StoredModes}

\* one run of the approval hook, on any input and any state of the settings
InitApproval ==
    /\ InitNoScan
    /\ names = [n \in FileNames |-> NoInode]
    /\ content = [i \in Inodes |-> <<>>]
    /\ initial = <<>>
    /\ before = RegistryFile
    /\ lockedBy = [i \in Inodes |-> NoProc]
    /\ polls = [p \in Procs |-> 0]
    /\ pc = [p \in Procs |-> "idle"]
    /\ op = [p \in Procs |-> Idle]
    /\ data = [p \in Procs |-> EmptyStructure]
    /\ fd = [p \in Procs |-> NoInode]
    /\ now = 2
    /\ done = <<>>
    /\ started = 0
    /\ timedOut = FALSE
    /\ sequential = TRUE
    /\ spc = [p \in Procs |-> "idle"]
    /\ sop = [p \in Procs |-> SettingsIdle]
    /\ sdoc = [p \in Procs |-> NoSettings]
    /\ sdone = <<>>
    /\ \/ sfile = [s \in SettingsIds |-> NoFile]
       \/ \E b \in ApprovalSettingsBytes :
            sfile = [s \in SettingsIds |->
                        IF s = "s1" THEN [exists |-> TRUE, bytes |-> b]
                        ELSE NoFile]
    /\ storeBefore = sfile
    /\ hookOut = NoOutput
    /\ InitNoLookup
    /\ InitNoEvent
    /\ \E p \in Procs, input \in HookInputs :
         hook = [p |-> p, pc |-> "start", input |-> input,
                 approval_mode |-> "unread", rules |-> FALSE, judged |-> 0,
                 attempt |-> 0, answered |-> FALSE, answer |-> <<>>,
                 backoff |-> 0, slept |-> <<>>, raised |-> FALSE]

SpecApproval == InitApproval /\ [][ApprovalNext]_vars

(***************************************************************************)
(* get_current_session_id: the lookup of a session by working directory.   *)
(* The cwd of a record and the directory asked for are paths in pieces.    *)
(***************************************************************************)
MaxRecords == 2    \* records of a registry document the lookup reads

LookupCwds == {<<Slash, "a">>, <<Slash, "b">>}
LookupTimes == {1, 2}

\* the records session-start has written and notifications have refreshed
LookupRecords ==
    {[session_id |-> s, cwd |-> c, status |-> "running", last_activity |-> t] :
        s \in SessionIds, c \in LookupCwds, t \in LookupTimes}

LookupDocuments ==
    {[sessions |-> ss, last_updated |-> 3] :
        ss \in SeqsUpTo(LookupRecords, MaxRecords)}

\* the directories asked for
LookupQueries ==
    {<<Slash, "a">>, <<Slash, "a", Slash>>,
     <<Slash, "b", Slash, "..", Slash, "a">>, <<Slash, "c">>}

\* key=lambda s: s.get("last_activity", 0)
LastActivity(s) == Get(s, "last_activity", 0)

\* sort without reverse=True: the smaller key stays ahead
KeepsAheadAscending(a, b) == LastActivity(a) <= LastActivity(b)

\* sort(..., reverse=True): a stays ahead of a later b unless b's key is greater
KeepsAhead(a, b) == LastActivity(a) >= LastActivity(b)

RECURSIVE InsertSorted(_, _)
InsertSorted(sorted, s) ==
    IF sorted = <<>> THEN <<s>>
    ELSE IF KeepsAhead(Head(sorted), s)
    THEN <<Head(sorted)>> \o InsertSorted(Tail(sorted), s)
    ELSE <<s>> \o sorted

RECURSIVE Sorted(_)
\* list.sort: stable
Sorted(list) ==
    IF list = <<>> THEN <<>>
    ELSE InsertSorted(Sorted(SubSeq(list, 1, Len(list) - 1)), list[Len(list)])

\* get_current_session_id(cwd) and the __main__ block around it: the id is
\* printed and the status is 0, or nothing is printed and the status is 1
\* (also when json.load raises, the exception ending the script)
get_current_session_id(cwd) ==
    LET dir == Resolve(cwd)
        none == [pc |-> "done", cwd |-> cwd, printed |-> NoSession, exit |-> 1,
                 raised |-> FALSE]
    IN  IF ~RegistryExists THEN none
        ELSE IF ~IsDocument(RegistryBytes) THEN [none EXCEPT !.raised = TRUE]
        ELSE LET sessions == JsonLoad(RegistryBytes).sessions
                 matching_sessions ==
                     SelectSeq(sessions, LAMBDA r : Get(r, "cwd", "None") = dir)
             IN  IF matching_sessions = <<>> THEN none
                 ELSE [none EXCEPT
                          !.printed = Sorted(matching_sessions)[1].session_id,
                          !.exit = 0]

\* the script runs
Lookup ==
    /\ lookup.pc = "start"
    /\ lookup' = get_current_session_id(lookup.cwd)
    /\ UNCHANGED <<registryVars, settingsVars, scanVars, hook, hookOut,
                   storeBefore, event, events, sequential, now, started>>

LookupNext == Lookup

\* the registry file is absent, cut short, or holds a document; the script
\* is called with a directory
InitLookup ==
    /\ InitNoSettings
    /\ InitNoScan
    /\ InitNoHook
    /\ InitNoEvent
    /\ \E cwd \in LookupQueries : lookup = [NoLookup EXCEPT !.pc = "start",
                                                            !.cwd = cwd]
    /\ \/ /\ names = [n \in FileNames |-> NoInode]
          /\ content = [i \in Inodes |-> <<>>]
       \/ \E b \in {JsonDump(d) : d \in LookupDocuments} \cup {<<[t |-> "{"]>>} :
          /\ names = [n \in FileNames |->
                        IF n = SESSIONS_FILE THEN 1 ELSE NoInode]
          /\ content = [i \in Inodes |-> IF i = 1 THEN b ELSE <<>>]
    /\ initial = content[1]
    /\ before = RegistryFile
    /\ lockedBy = [i \in Inodes |-> NoProc]
    /\ polls = [p \in Procs |-> 0]
    /\ pc = [p \in Procs |-> "idle"]
    /\ op = [p \in Procs |-> Idle]
    /\ data = [p \in Procs |-> EmptyStructure]
    /\ fd = [p \in Procs |-> NoInode]
    /\ now = 4
    /\ done = <<>>
    /\ started = 0
    /\ timedOut = FALSE
    /\ sequential = TRUE

SpecLookup == InitLookup /\ [][LookupNext]_vars

(***************************************************************************)
(* The hooks: main() of session-start, session-end, notification-hook and  *)
(* stop-hook, and the approval hook above, run one after another by the    *)
(* host.  A run reads its input, calls into the settings store and the     *)
(* registry (the steps above), and exits.  A message is a text in pieces.  *)
(***************************************************************************)
\* message.lower()
LowerPiece(w) ==
    CASE w = "Permission" -> "permission"
      [] w = "IDLE" -> "idle"
      [] w = "Waiting for your input" -> "waiting for your input"
      [] OTHER -> w

Lower(text) == [i \in DOMAIN text |-> LowerPiece(text[i])]

\* notification-hook with the two tests in the other order
StatusIdleFirst(message) ==
    LET m == Lower(message)
    IN  IF Contains(m, <<"waiting for your input">>) \/ Contains(m, <<"idle">>)
        THEN "waiting_for_input"
        ELSE IF Contains(m, <<"permission">>) THEN "needs_permission"
        ELSE "running"

\* notification-hook: the status a message stands for
Status(message) ==
    LET m == Lower(message)
    IN  IF Contains(m, <<"permission">>) THEN "needs_permission"
        ELSE IF Contains(m, <<"waiting for your input">>)
                \/ Contains(m, <<"idle">>)
        THEN "waiting_for_input"
        ELSE "running"

Messages ==
    {<<"Claude needs your ", "Permission", " to use Bash">>,
     <<"Claude is ", "Waiting for your input">>,
     <<"Claude has been ", "IDLE", " for a while">>,
     <<"idle", ": ", "permission", " needed">>,
     <<"Task complete">>}

\* session-start: session_data, time.time() read at t and again after
session_data(input, t) ==
    [session_id |-> input.session_id, cwd |-> "/b", status |-> "running",
     started_at |-> t, last_activity |-> t + 1]

\* notification-hook: updates
notification_updates(input, t) ==
    [status |-> Status(input.message), last_activity |-> t,
     last_notification |-> input.message]

\* stop-hook: update_session_activity
update_session_activity(t) == [last_activity |-> t, status |-> "running"]

\* is_hook_enabled with a hook that is not named counting as disabled
is_hook_enabled_closed(settings, hook_name) ==
    /\ "hooks_enabled" \in DOMAIN settings
    /\ Get(settings.hooks_enabled, hook_name, FALSE)

\* is_hook_enabled: settings.get("hooks_enabled", {}).get(hook_name, True)
is_hook_enabled(settings, hook_name) ==
    IF "hooks_enabled" \in DOMAIN settings
    THEN Get(settings.hooks_enabled, hook_name, TRUE)
    ELSE TRUE

\* stop-hook main with the field of the input in place of the constant
StopHookActiveFromInput(input) == input.stop_hook_active

\* stop-hook main: stop_hook_active = False, whatever the input holds
StopHookActive(input) == FALSE

\* stop-hook: should_skip_hook
should_skip_hook(stop_hook_active) == stop_hook_active

\* stop-hook: create_block_decision, printed
BlockDecision == Output("block", "todos", "")

\* sys.exit(0) with nothing on standard output
Silent == [NoOutput EXCEPT !.exit = 0]

\* the except branch that leaves with status 1
ErrorExitFails(kind) ==
    IF kind = "approval-hook" THEN Output("ask", "error", "")
    ELSE [NoOutput EXCEPT !.exit = 1]

\* except Exception: the error goes to stderr, the approval hook prints ask;
\* sys.exit(0)
ErrorExit(kind) ==
    IF kind = "approval-hook" THEN Output("ask", "error", "") ELSE Silent

\* the process of the hook that runs
Runner == CHOOSE p \in Procs : TRUE

\* a run of the approval hook
HookRun(p, pos, input) ==
    [p |-> p, pc |-> pos, input |-> input, approval_mode |-> "unread",
     rules |-> FALSE, judged |-> 0, attempt |-> 0, answered |-> FALSE,
     answer |-> <<>>, backoff |-> 0, slept |-> <<>>, raised |-> FALSE]

\* the hook that runs has exited
EventOver ==
    IF event.kind = "approval-hook" THEN hook.pc = "exited"
    ELSE event.pc \in {"idle", "exited"}

\* what the host starts: a hook and its input
EventInputs ==
    {NoEventInput}
    \cup {[valid |-> TRUE, session_id |-> s, message |-> <<>>,
            stop_hook_active |-> FALSE] : s \in SettingsIds}

HookEvents ==
    {[kind |-> k, input |-> i, tool |-> NoInput] :
        k \in {"session-start", "session-end", "stop-hook"}, i \in EventInputs}
    \cup {[kind |-> "notification-hook", input |-> i, tool |-> NoInput] :
            i \in {NoEventInput,
                   [valid |-> TRUE, session_id |-> "",
                    message |-> <<"Task complete">>,
                    stop_hook_active |-> FALSE]}
               \cup {[valid |-> TRUE, session_id |-> "s1", message |-> m,
                       stop_hook_active |-> FALSE] :
                        m \in Messages}}
    \cup {[kind |-> "approval-hook", input |-> NoEventInput, tool |-> NoInput]}
    \cup {[kind |-> "approval-hook",
           input |-> [valid |-> TRUE, session_id |-> t.session_id,
                      message |-> <<>>, stop_hook_active |-> FALSE],
           tool |-> t] :
            t \in {h \in HookInputs :
                     /\ h.valid
                     /\ h.tool_name \in {"Read", "Bash"}
                     /\ (h.session_id = "" => h.tool_name = "Read")}}

\* what the steps of main() leave alone
beyondEvent == <<storeBefore, lookup, events, sequential, started>>

\* sys.exit(0), with what was printed
EventExits(output) ==
    /\ event' = [event EXCEPT !.pc = "exited"]
    /\ hookOut' = output

\* the host starts one of the hooks E, at most `runs` times
EventStarts(E, runs) ==
    /\ EventOver
    /\ events < runs
    /\ events' = events + 1
    /\ \E e \in E :
         /\ event' = [kind |-> e.kind, p |-> Runner,
                      pc |-> IF e.kind = "approval-hook" THEN "approval"
                             ELSE "start",
                      input |-> e.input, call |-> Idle, base |-> started,
                      registry |-> RegistryFile]
         /\ hook' = IF e.kind = "approval-hook"
                    THEN HookRun(Runner, "start", e.tool)
                    ELSE HookRun(NoProc, "idle", NoInput)
    /\ hookOut' = NoOutput
    /\ storeBefore' = sfile
    /\ UNCHANGED <<registryVars, settingsVars, scanVars, lookup, sequential,
                   now, started>>

\* the host starts a hook
EventStart == EventStarts(HookEvents, MaxOps)

\* main() up to its first call into a store: json.load(sys.stdin), the
\* fields, `if not session_id`, and load_settings up to settings_path.exists()
EventInput ==
    /\ event.pc = "start"
    /\ LET sid == event.input.session_id
           o == [kind |-> "load", sid |-> sid, arg |-> NoSettings,
                 pre |-> sfile[sid]]
       IN  IF ~event.input.valid
           THEN /\ EventExits(ErrorExit(event.kind))
                /\ UNCHANGED <<spc, sop, sdoc, sdone, now>>
           ELSE IF event.kind = "stop-hook"
           THEN /\ LoadSettings(event.p, o)
                /\ event' = [event EXCEPT !.pc = "settings"]
                /\ UNCHANGED hookOut
           ELSE IF sid = ""
           THEN /\ EventExits(Silent)
                /\ UNCHANGED <<spc, sop, sdoc, sdone, now>>
           ELSE IF event.kind = "session-start"
           THEN /\ LoadSettings(event.p, o)
                /\ event' = [event EXCEPT !.pc = "settings"]
                /\ UNCHANGED hookOut
           ELSE IF event.kind = "session-end"
           THEN /\ event' = [event EXCEPT
                               !.pc = "registry",
                               !.call = [kind |-> "remove", sid |-> sid,
                                         arg |-> NoArg]]
                /\ UNCHANGED <<hookOut, spc, sop, sdoc, sdone, now>>
           ELSE \* notification-hook
                /\ event' = [event EXCEPT
                               !.pc = "registry",
                               !.call = [kind |-> "update", sid |-> sid,
                                         arg |-> notification_updates(
                                                    event.input, now)]]
                /\ now' = now + 1
                /\ UNCHANGED <<hookOut, spc, sop, sdoc, sdone>>
    /\ UNCHANGED <<registryVars, scanVars, sfile, hook, beyondEvent>>

\* load_settings has returned: session-start builds session_data; stop-hook
\* tests is_hook_enabled and should_skip_hook and goes on to
\* parse_latest_todos
EventSettings ==
    /\ event.pc = "settings"
    /\ spc[event.p] = "idle"
    /\ IF event.kind = "session-start"
       THEN /\ event' = [event EXCEPT
                           !.pc = "registry",
                           !.call = [kind |-> "add",
                                     sid |-> event.input.session_id,
                                     arg |-> session_data(event.input, now)]]
            /\ now' = now + 2
            /\ UNCHANGED <<hookOut, scanVars>>
       ELSE IF \/ ~is_hook_enabled(sdone[Len(sdone)].ret, "stop-hook")
               \/ should_skip_hook(StopHookActive(event.input))
       THEN /\ EventExits(Silent)
            /\ UNCHANGED <<now, scanVars>>
       ELSE /\ event' = [event EXCEPT !.pc = "scan"]
            /\ scanPc' = "start"
            /\ lineNo' = 0
            /\ rejected_tool_ids' = {}
            /\ todos' = None
            /\ taken' = <<0, 0>>
            /\ UNCHANGED <<hookOut, now, transcript>>
    /\ UNCHANGED <<registryVars, settingsVars, hook, beyondEvent>>

\* stop-hook: parse_latest_todos has returned; with pending todos the block
\* decision is printed, without them update_session_activity is called for a
\* session_id that is there
EventDecide ==
    /\ event.pc = "scan"
    /\ scanPc = "returned"
    /\ IF get_pending_todos(todos) # <<>>
       THEN EventExits(BlockDecision) /\ UNCHANGED now
       ELSE IF event.input.session_id = ""
       THEN EventExits(Silent) /\ UNCHANGED now
       ELSE /\ event' = [event EXCEPT
                           !.pc = "registry",
                           !.call = [kind |-> "update",
                                     sid |-> event.input.session_id,
                                     arg |-> update_session_activity(now)]]
            /\ now' = now + 1
            /\ UNCHANGED hookOut
    /\ UNCHANGED <<registryVars, settingsVars, scanVars, hook, beyondEvent>>

\* add_session, remove_session or update_session is called
EventRegistryCall ==
    /\ event.pc = "registry"
    /\ started = event.base
    /\ Call(event.p, {event.call})

\* the registry call has returned: sys.exit(0)
EventExit ==
    /\ event.pc = "registry"
    /\ started > event.base
    /\ pc[event.p] = "idle"
    /\ EventExits(Silent)
    /\ UNCHANGED <<registryVars, settingsVars, scanVars, hook, beyondEvent, now>>

\* save_settings: open(settings_path, 'w') raises (OSError); the exception
\* leaves load_settings and reaches the except branch of main()
SettingsOpenFails ==
    /\ ~EventOver
    /\ spc[event.p] = "open_w"
    /\ spc' = [spc EXCEPT ![event.p] = "idle"]
    /\ sop' = [sop EXCEPT ![event.p] = SettingsIdle]
    /\ sdoc' = [sdoc EXCEPT ![event.p] = NoSettings]
    /\ event' = [event EXCEPT !.pc = "exited"]
    /\ hook' = IF event.kind = "approval-hook"
               THEN [hook EXCEPT !.pc = "exited"] ELSE hook
    /\ hookOut' = ErrorExit(event.kind)
    /\ UNCHANGED <<registryVars, scanVars, sfile, sdone, beyondEvent, now>>

\* write_sessions: open(temp_file, 'w') raises; the except branch prints the
\* error and returns False
RegistryWriteFails ==
    /\ ~EventOver
    /\ pc[event.p] = "open_w"
    /\ done' = Append(done, [p |-> event.p, call |-> op[event.p], ret |-> FALSE])
    /\ pc' = [pc EXCEPT ![event.p] = "idle"]
    /\ op' = [op EXCEPT ![event.p] = Idle]
    /\ data' = [data EXCEPT ![event.p] = EmptyStructure]
    /\ UNCHANGED <<names, content, lockedBy, fd, now, started, timedOut, before,
                   fixed>>

HooksNext ==
    \/ EventStart
    \/ EventInput
    \/ EventSettings
    \/ EventDecide
    \/ EventRegistryCall
    \/ EventExit
    \/ SettingsOpenFails
    \/ RegistryWriteFails
    \/ HookInput
    \/ HookDecide
    \/ JudgeClient
    \/ ChatAttempt
    \/ ScanOpen
    \/ FirstPassLine
    \/ SecondPassOpen
    \/ SecondPassLine
    \/ ScanReturn
    \/ \E p \in Procs :
        \/ SettingsOpenRead(p)
        \/ SettingsRead(p)
        \/ SettingsOpenWrite(p)
        \/ SettingsWrite(p)
        \/ ReadOpen(p)
        \/ AcquireLock(p)
        \/ ReadLoad(p)
        \/ ReadUnlock(p)
        \/ WriteOpen(p)
        \/ WriteDump(p)
        \/ WriteUnlock(p)
        \/ WriteRename(p)

\* the transcript of the session: a list with a pending todo, or that list
\* replaced by one that is done
EventTranscripts ==
    {[exists |-> TRUE, readable |-> TRUE, lines |-> ls] :
        ls \in {<<Line("message",
                       <<ToolUse("TodoWrite", "t1",
                                 Some(<<Todo("A", "pending"),
                                        Todo("B", "completed")>>))>>)>>,
                <<Line("message",
                       <<ToolUse("TodoWrite", "t1",
                                 Some(<<Todo("A", "pending"),
                                        Todo("B", "completed")>>))>>),
                  Line("message", <<ToolUse("TodoWrite", "t2", Some(<<>>))>>)>>}}

\* the registry as earlier hooks left it: s1 waits for input
EventDocuments ==
    {[sessions |-> <<[session_id |-> "s1", cwd |-> "/a",
                      status |-> "waiting_for_input", started_at |-> 1,
                      last_activity |-> 2,
                      last_notification |-> <<"IDLE">>],
                     [session_id |-> "s2", cwd |-> "/a", status |-> "running",
                      started_at |-> 1, last_activity |-> 1]>>,
      last_updated |-> 2]}

InitHooks ==
    /\ InitNoHook
    /\ InitNoLookup
    /\ InitNoEvent
    /\ transcript \in EventTranscripts
    /\ scanPc = "idle"
    /\ lineNo = 0
    /\ rejected_tool_ids = {}
    /\ todos = None
    /\ taken = <<0, 0>>
    /\ \/ /\ names = [n \in FileNames |-> NoInode]
          /\ content = [i \in Inodes |-> <<>>]
       \/ \E d \in EventDocuments :
          /\ names = [n \in FileNames |->
                        IF n = SESSIONS_FILE THEN 1 ELSE NoInode]
          /\ content = [i \in Inodes |-> IF i = 1 THEN JsonDump(d) ELSE <<>>]
    /\ initial = content[1]
    /\ before = RegistryFile
    /\ lockedBy = [i \in Inodes |-> NoProc]
    /\ polls = [p \in Procs |-> 0]
    /\ pc = [p \in Procs |-> "idle"]
    /\ op = [p \in Procs |-> Idle]
    /\ data = [p \in Procs |-> EmptyStructure]
    /\ fd = [p \in Procs |-> NoInode]
    /\ now = 3
    /\ done = <<>>
    /\ started = 0
    /\ timedOut = FALSE
    /\ sequential = TRUE
    /\ spc = [p \in Procs |-> "idle"]
    /\ sop = [p \in Procs |-> SettingsIdle]
    /\ sdoc = [p \in Procs |-> NoSettings]
    /\ sdone = <<>>
    /\ sfile = [s \in SettingsIds |-> NoFile]

SpecHooks == InitHooks /\ [][HooksNext]_vars

(***************************************************************************)
(* One run of the stop hook, on every state of the session's settings      *)
(* file, with and without a record in the registry, on transcripts whose   *)
(* latest list is pending, in progress, done, replaced or rejected.        *)
(***************************************************************************)
StopEvents ==
    {[kind |-> "stop-hook", input |-> i, tool |-> NoInput] : i \in EventInputs}

\* the host starts the stop hook
StopStart == EventStarts(StopEvents, 1)

StopNext ==
    \/ StopStart
    \/ EventInput
    \/ EventSettings
    \/ EventDecide
    \/ EventRegistryCall
    \/ EventExit
    \/ ScanOpen
    \/ FirstPassLine
    \/ SecondPassOpen
    \/ SecondPassLine
    \/ ScanReturn
    \/ \E p \in Procs :
        \/ SettingsOpenRead(p)
        \/ SettingsRead(p)
        \/ SettingsOpenWrite(p)
        \/ SettingsWrite(p)
        \/ ReadOpen(p)
        \/ AcquireLock(p)
        \/ ReadLoad(p)
        \/ ReadUnlock(p)
        \/ WriteOpen(p)
        \/ WriteDump(p)
        \/ WriteUnlock(p)
        \/ WriteRename(p)

TodoLine(id, list) == Line("message", <<ToolUse("TodoWrite", id, Some(list))>>)

StopTranscripts ==
    {[exists |-> FALSE, readable |-> FALSE, lines |-> <<>>]}
    \cup {[exists |-> TRUE, readable |-> TRUE, lines |-> ls] :
        ls \in {<<TodoLine("t1", <<Todo("A", "pending"), Todo("B", "completed")>>)>>,
                <<TodoLine("t1", <<Todo("A", "completed"),
                                   Todo("B", "in_progress")>>)>>,
                <<TodoLine("t1", <<Todo("A", "completed"),
                                   Todo("B", "cancelled")>>)>>,
                <<TodoLine("t1", <<Todo("A", "pending")>>),
                  TodoLine("t2", <<>>)>>,
                <<TodoLine("t1", <<Todo("A", "completed")>>),
                  TodoLine("t2", <<Todo("A", "pending")>>),
                  Line("message", <<ToolResult("t2", Text(Rejection))>>)>>,
                <<TodoLine("t1", <<Todo("A", "pending")>>),
                  Line("array", <<>>)>>}}

\* the settings file of s1: stop-hook disabled, the defaults, hooks_enabled
\* without stop-hook, no hooks_enabled, and a file cut short
StopSettingsFiles ==
    {NoFile}
    \cup {[exists |-> TRUE, bytes |-> SettingsDump(d)] :
            d \in {Stamped(Settings("ai"), 1),
                   Stamped(GetDefaultSettings("s1", 1), 2),
                   [session_id |-> "s1",
                    hooks_enabled |-> [h \in {"session-end"} |-> FALSE]],
                   [session_id |-> "s1",
                    metadata |-> [approval_mode |-> "strict"]]}}
    \cup {[exists |-> TRUE,
           bytes |-> SubSeq(SettingsDump(Stamped(Settings("ai"), 1)), 1, 3)]}

InitStop ==
    /\ InitNoHook
    /\ InitNoLookup
    /\ InitNoEvent
    /\ transcript \in StopTranscripts
    /\ scanPc = "idle"
    /\ lineNo = 0
    /\ rejected_tool_ids = {}
    /\ todos = None
    /\ taken = <<0, 0>>
    /\ \/ /\ names = [n \in FileNames |-> NoInode]
          /\ content = [i \in Inodes |-> <<>>]
       \/ \E d \in EventDocuments :
          /\ names = [n \in FileNames |->
                        IF n = SESSIONS_FILE THEN 1 ELSE NoInode]
          /\ content = [i \in Inodes |-> IF i = 1 THEN JsonDump(d) ELSE <<>>]
    /\ initial = content[1]
    /\ before = RegistryFile
    /\ lockedBy = [i \in Inodes |-> NoProc]
    /\ polls = [p \in Procs |-> 0]
    /\ pc = [p \in Procs |-> "idle"]
    /\ op = [p \in Procs |-> Idle]
    /\ data = [p \in Procs |-> EmptyStructure]
    /\ fd = [p \in Procs |-> NoInode]
    /\ now = 3
    /\ done = <<>>
    /\ started = 0
    /\ timedOut = FALSE
    /\ sequential = TRUE
    /\ spc = [p \in Procs |-> "idle"]
    /\ sop = [p \in Procs |-> SettingsIdle]
    /\ sdoc = [p \in Procs |-> NoSettings]
    /\ sdone = <<>>
    /\ \E f \in StopSettingsFiles :
          sfile = [s \in SettingsIds |-> IF s = "s1" THEN f ELSE NoFile]

SpecStop == InitStop /\ [][StopNext]_vars

(***************************************************************************)
(* A series of stop events for one session: the host sends the next stop   *)
(* event when the hook has answered, with stop_hook_active as it likes.    *)
(***************************************************************************)
StopSeries ==
    {[kind |-> "stop-hook",
      input |-> [valid |-> TRUE, session_id |-> "s1", message |-> <<>>,
                 stop_hook_active |-> a],
      tool |-> NoInput] : a \in BOOLEAN}

\* the host sends a stop event
StopAgain == EventStarts(StopSeries, MaxOps)

StopsNext ==
    \/ StopAgain
    \/ EventInput
    \/ EventSettings
    \/ EventDecide
    \/ EventRegistryCall
    \/ EventExit
    \/ ScanOpen
    \/ FirstPassLine
    \/ SecondPassOpen
    \/ SecondPassLine
    \/ ScanReturn
    \/ \E p \in Procs :
        \/ SettingsOpenRead(p)
        \/ SettingsRead(p)
        \/ SettingsOpenWrite(p)
        \/ SettingsWrite(p)
        \/ ReadOpen(p)
        \/ AcquireLock(p)
        \/ ReadLoad(p)
        \/ ReadUnlock(p)
        \/ WriteOpen(p)
        \/ WriteDump(p)
        \/ WriteUnlock(p)
        \/ WriteRename(p)

InitStops == InitStop

SpecStops == InitStops /\ [][StopsNext]_vars

(***************************************************************************)
(* Properties of the session registry                                      *)
(***************************************************************************)
WritePcs == {"open_w", "lock_w", "dump", "unlock_w", "rename"}
Last(seq) == seq[Len(seq)]
BothRegistered == JsonDump([sessions |-> <<SessionData("s1", "/a"),
                                           SessionData("s2", "/a")>>,
                            last_updated |-> 1])

\* the indices of the records of document d with this session_id
RecordsOf(d, sid) ==
    {i \in 1..Len(d.sessions) : Get(d.sessions[i], "session_id", "None") = sid}

\* document d has a record of sid that carries every field of updates
Carries(d, sid, updates) ==
    \E i \in RecordsOf(d, sid) :
        \A k \in DOMAIN updates :
            k \in DOMAIN d.sessions[i] /\ d.sessions[i][k] = updates[k]

NoDuplicateIds(d) ==
    \A i, j \in 1..Len(d.sessions) :
        Get(d.sessions[i], "session_id", "None")
            = Get(d.sessions[j], "session_id", "None") => i = j

\* two processes have each run one update_session, for different ids that were
\* both registered, no lock wait timed out, and both calls returned True
TwoUpdatesReturned ==
    /\ Quiescent /\ ~timedOut
    /\ started = 2 /\ Len(done) = 2
    /\ initial = BothRegistered
    /\ done[1].p # done[2].p
    /\ done[1].call.kind = "update" /\ done[2].call.kind = "update"
    /\ done[1].call.sid # done[2].call.sid
    /\ done[1].ret /\ done[2].ret

\* C1: after two update_session calls of two processes for different
\* registered ids have returned (no lock wait having timed out), the registry
\* record of each id carries the fields of its own update.
C1_NoLostUpdate ==
    TwoUpdatesReturned =>
        \A i \in 1..2 : Carries(ReadSessions, done[i].call.sid, done[i].call.arg)

\* C2: the bytes a reader finds in the registry file are always one complete
\* document, never an empty, truncated or partly written file (stated for
\* the interleavings in which no lock wait times out).
C2_NoTornRead ==
    (RegistryExists /\ ~timedOut) => IsDocument(RegistryBytes)

\* C3: when a process crashes inside write_sessions at any step before the
\* rename has happened, the registry file exists as before and holds exactly
\* the bytes it held when write_sessions was entered.
C3_CrashAtomic ==
    [][\A p \in Procs :
          (pc[p] \in WritePcs /\ pc'[p] = "crashed") => RegistryFile' = before]_vars

\* a process crashed while writing: the temporary file holds part of a
\* document and the registry file holds a whole one
C3_Witness ==
    /\ \E p \in Procs : pc[p] = "crashed"
    /\ done = <<>>
    /\ names[TEMP_FILE] # NoInode
    /\ content[names[TEMP_FILE]] # <<>>
    /\ ~IsDocument(content[names[TEMP_FILE]])
    /\ RegistryExists /\ IsDocument(RegistryBytes)

\* C4: every document that is written as, or has become, the registry file
\* holds at most one record per session_id, in every interleaving of
\* add_session, remove_session and update_session calls.
C4_UniqueIds ==
    /\ (RegistryExists /\ IsDocument(RegistryBytes))
            => NoDuplicateIds(JsonLoad(RegistryBytes))
    /\ \A p \in Procs : pc[p] \in WritePcs => NoDuplicateIds(data[p])

\* an add_session has replaced the registry while another process is about
\* to rename its own document over it
C4_Witness ==
    /\ \E p \in Procs : pc[p] = "rename"
    /\ Len(done) = 1 /\ done[1].call.kind = "add" /\ done[1].ret
    /\ Len(ReadSessions.sessions) = 2

\* only add_session calls ran, each to its return
OnlyAdds ==
    /\ \A p \in Procs : pc[p] = "idle"
    /\ Len(done) = started
    /\ \A i \in 1..Len(done) : done[i].call.kind = "add"

LastAddOf(sid) ==
    LET is == {i \in 1..Len(done) : done[i].call.sid = sid}
    IN  done[CHOOSE i \in is : \A j \in is : j <= i].call.arg

\* C5: after add_session calls run one after another, the registry holds
\* exactly one record for every id added, that record has the field values of
\* the id's last add_session, and the record added last is the last of the list.
C5_Upsert ==
    OnlyAdds =>
        /\ \A i \in 1..Len(done) :
              LET sid == done[i].call.sid
                  recs == RecordsOf(ReadSessions, sid)
              IN  /\ Cardinality(recs) = 1
                  /\ \A r \in recs : ReadSessions.sessions[r] = LastAddOf(sid)
        /\ done # <<>> => Last(ReadSessions.sessions) = Last(done).call.arg

\* the same id was added twice, with different field values
C5_Witness ==
    /\ OnlyAdds /\ Len(done) = 2
    /\ done[1].call.sid = done[2].call.sid
    /\ done[1].call.arg # done[2].call.arg

\* C6: once remove_session(id) has returned and nothing else has run, a
\* lookup of id in the registry finds no record, whatever the registry file
\* held before.
C6_RemoveThenFind ==
    (Quiescent /\ done # <<>> /\ Last(done).call.kind = "remove")
        => FirstMatch(ReadSessions.sessions, Last(done).call.sid) = 0

\* remove_session ran on a registry that held two records of the id
C6_Witness ==
    /\ Quiescent /\ Len(done) = 1
    /\ done[1].call.kind = "remove" /\ done[1].call.sid = "s1"
    /\ initial = JsonDump(RepeatedIds)

(***************************************************************************)
(* Properties of the session settings                                      *)
(***************************************************************************)
SettingsLast == sdone[Len(sdone)]

\* the two dicts agree on every key but the one named
EqualExcept(a, b, key) ==
    /\ DOMAIN a \ {key} = DOMAIN b \ {key}
    /\ \A k \in DOMAIN a \ {key} : a[k] = b[k]

\* approval_mode "ai" and the four hooks enabled
IsDefaults(d) ==
    /\ "metadata" \in DOMAIN d
    /\ "approval_mode" \in DOMAIN d.metadata
    /\ d.metadata.approval_mode = "ai"
    /\ "hooks_enabled" \in DOMAIN d
    /\ \A h \in HookNames :
         h \in DOMAIN d.hooks_enabled /\ d.hooks_enabled[h] = TRUE

\* the file holds a document that has no approval_mode
LacksApprovalMode(file) ==
    /\ file.exists
    /\ IsSettingsDocument(file.bytes)
    /\ LET d == SettingsLoad(file.bytes)
       IN  "metadata" \in DOMAIN d => "approval_mode" \notin DOMAIN d.metadata

Unparseable(file) == file.exists /\ ~IsSettingsDocument(file.bytes)

\* save_settings(id, settings) and then load_settings(id), nothing in between
SavedThenLoaded ==
    /\ Len(sdone) >= 2
    /\ sdone[Len(sdone) - 1].call.kind = "save"
    /\ SettingsLast.call.kind = "load"
    /\ SettingsLast.call.sid = sdone[Len(sdone) - 1].call.sid
    /\ SettingsLast.call.sid # ""

\* C7: with the calls one after another, for a non-empty session id,
\* save_settings(id, settings) followed by load_settings(id) returns a
\* document equal to settings in every field except updated_at.
C7_RoundTrip ==
    SavedThenLoaded =>
        EqualExcept(SettingsLast.ret, sdone[Len(sdone) - 1].call.arg,
                    "updated_at")

C7_Witness ==
    /\ SavedThenLoaded
    /\ sdone[Len(sdone) - 1].call.arg = NoApprovalMode
    /\ "updated_at" \in DOMAIN SettingsLast.ret

\* load_settings has just returned for an id that had no settings file
LoadedAbsent ==
    /\ SettingsQuiescent
    /\ Len(sdone) >= 1
    /\ SettingsLast.call.kind = "load"
    /\ ~SettingsLast.call.pre.exists

\* the file of the id exists and holds the document that was returned
FileHoldsReturned ==
    LET file == sfile[SettingsLast.call.sid]
    IN  /\ file.exists
        /\ IsSettingsDocument(file.bytes)
        /\ SettingsLoad(file.bytes) = SettingsLast.ret

\* C8 as the spec states it: load_settings on a session id that has no
\* settings file creates the file and returns the defaults, and the file then
\* holds the document that was returned.
C8_CreatesDefaults ==
    LoadedAbsent => IsDefaults(SettingsLast.ret) /\ FileHoldsReturned

\* C8, amended: the same, for a non-empty session id.
C8_CreatesDefaultsNonEmptyId ==
    (LoadedAbsent /\ SettingsLast.call.sid # "") =>
        IsDefaults(SettingsLast.ret) /\ FileHoldsReturned

C8_Witness ==
    /\ LoadedAbsent
    /\ SettingsLast.call.sid = "s1"
    /\ sfile["s1"].exists

\* the calls of load_settings that returned, the calls running one after another
Loads == {i \in DOMAIN sdone : sequential /\ sdone[i].call.kind = "load"}

Restrictive == {"strict", "disabled"}

\* every save_settings so far passed a restrictive approval_mode
OnlyRestrictiveSaved ==
    /\ \A p \in Procs :
         sop[p].kind = "save" =>
            GetMetadata(sop[p].arg, "approval_mode", "ai") \in Restrictive
    /\ \A i \in DOMAIN sdone :
         sdone[i].call.kind = "save" =>
            GetMetadata(sdone[i].call.arg, "approval_mode", "ai")
                \in Restrictive

\* C10: a load_settings or get_metadata that runs concurrently with a
\* save_settings of the same session returns the stored document or the new
\* one, never defaults made because the file was seen empty: when the file
\* held a restrictive approval_mode as the call started and only restrictive
\* modes are saved, the call does not read "ai".
C10_NeverReadAsAi ==
    OnlyRestrictiveSaved =>
        \A i \in DOMAIN sdone :
            LET e == sdone[i]
            IN  (/\ e.call.kind \in {"load", "get_metadata"}
                 /\ e.call.sid # ""
                 /\ e.call.pre.exists
                 /\ IsSettingsDocument(e.call.pre.bytes)
                 /\ GetMetadata(SettingsLoad(e.call.pre.bytes),
                                "approval_mode", "ai") \in Restrictive)
                => e.val \in Restrictive

(***************************************************************************)
(* Properties of the todo scanner                                          *)
(***************************************************************************)
\* the content blocks of the transcript, by <<line, block>>
Positions ==
    UNION {{<<i, j>> : j \in DOMAIN transcript.lines[i].content} :
              i \in DOMAIN transcript.lines}

BlockAt(pos) == transcript.lines[pos[1]].content[pos[2]]

\* file order
NotAfter(a, b) == a[1] < b[1] \/ (a[1] = b[1] /\ a[2] <= b[2])

\* a tool_result whose content has the rejection phrase
Rejecting(b) ==
    b.type = "tool_result" /\ Contains(b.content.text, RejectionPhrase)

RejectedIds ==
    {BlockAt(pos).tool_use_id : pos \in {q \in Positions : Rejecting(BlockAt(q))}}

\* the TodoWrite calls that were not rejected and have a todos payload
Accepted ==
    {pos \in Positions :
        LET b == BlockAt(pos)
        IN  /\ b.type = "tool_use"
            /\ b.name = "TodoWrite"
            /\ b.id \notin RejectedIds
            /\ b.todos.some}

LastAccepted == CHOOSE a \in Accepted : \A b \in Accepted : NotAfter(b, a)

\* the result is the payload of the last accepted call, None without one
ReturnsLastAccepted ==
    IF Accepted = {} THEN todos = None /\ taken = <<0, 0>>
    ELSE taken = LastAccepted /\ todos = BlockAt(LastAccepted).todos

\* no line makes a pass raise
Completes == \A i \in DOMAIN transcript.lines : transcript.lines[i].kind \notin Raising

\* every rejecting tool_result still shows the phrase in str(content)
Recognised ==
    \A pos \in Positions :
        Rejecting(BlockAt(pos)) =>
            Contains(Str(BlockAt(pos).content), RejectionPhrase)

\* C11: a TodoWrite call whose id is the tool_use_id of a tool_result that
\* contains the rejection phrase, before or after it in the file, does not
\* become the result of parse_latest_todos.
C11_RejectedNeverCount ==
    (scanPc = "returned" /\ todos.some) => BlockAt(taken).id \notin RejectedIds

C13_EveryLineScanned ==
    (scanPc = "returned" /\ Recognised) => ReturnsLastAccepted

(***************************************************************************)
(* Properties of the approval hook                                         *)
(***************************************************************************)
Exited == hook.pc = "exited"

\* the approval_mode stored for the session of the input, "" without one
StoredMode ==
    LET file == storeBefore[hook.input.session_id]
    IN  IF hook.input.valid /\ file.exists /\ IsSettingsDocument(file.bytes)
        THEN GetMetadata(SettingsLoad(file.bytes), "approval_mode", "")
        ELSE ""

JudgeNotInvoked == hook.judged = 0 /\ ~hook.answered /\ hook.attempt = 0

\* C14: with approval mode auto the hook prints allow and with strict it
\* prints ask, for every tool name and input, and the Judge is not invoked.
C14_ModeOverridesRules ==
    Exited =>
        /\ StoredMode \in {"auto", "strict"} => hook.approval_mode = StoredMode
        /\ hook.approval_mode = "auto" =>
              hookOut.decision = "allow" /\ JudgeNotInvoked
        /\ hook.approval_mode = "strict" =>
              hookOut.decision = "ask" /\ JudgeNotInvoked

C14_Witness ==
    /\ Exited
    /\ StoredMode = "strict"
    /\ hook.input.tool_name = "Read"
    /\ hookOut.decision = "ask"

\* C15: with approval mode disabled the hook prints no decision, does not
\* evaluate the rules, does not invoke the Judge, and exits with status 0.
C15_DisabledIsSilent ==
    (Exited /\ (hook.approval_mode = "disabled" \/ StoredMode = "disabled")) =>
        /\ hookOut.decision = "none"
        /\ hookOut.exit = 0
        /\ ~hook.rules
        /\ JudgeNotInvoked

C15_Witness ==
    /\ Exited
    /\ StoredMode = "disabled"
    /\ hook.input.tool_name = "Bash"
    /\ hookOut.exit = 0

FastPathTools ==
    {"Read", "Grep", "Glob", "TodoWrite", "Task", "Skill", "SlashCommand",
     "AskUserQuestion", "ExitPlanMode"}

\* C16: in ai mode, for the tool names Read, Grep, Glob and the core tools,
\* the decision is allow and the Judge is not invoked.
C16_FastPath ==
    (Exited /\ hook.approval_mode = "ai"
            /\ hook.input.tool_name \in FastPathTools) =>
        hookOut.decision = "allow" /\ JudgeNotInvoked

C16_Witness ==
    /\ Exited
    /\ hook.approval_mode = "ai"
    /\ hook.input.tool_name = "ExitPlanMode"
    /\ hookOut.decision = "allow"

\* the target of the path lies under /tmp/, /var/tmp/ or /private/tmp/
UnderTempDir(path) ==
    /\ path # <<>>
    /\ Head(path) = Slash
    /\ LET target == Resolved(SelectSeq(path, LAMBDA x : x # Slash), <<>>)
       IN  \E d \in {<<"tmp">>, <<"var", "tmp">>, <<"private", "tmp">>} :
              Len(target) > Len(d) /\ SubSeq(target, 1, Len(d)) = d

\* C17: in ai mode a Write or Edit is allowed without the Judge if and only
\* if its target lies under one of the temporary directories; otherwise it
\* goes to the Judge.
C17_TempDirOnly ==
    (Exited /\ hook.approval_mode = "ai"
            /\ hook.input.tool_name \in {"Write", "Edit"}) =>
        IF UnderTempDir(hook.input.file_path)
        THEN hookOut.decision = "allow" /\ JudgeNotInvoked
        ELSE hook.judged = 1 /\ hookOut.reason = "judge"

\* the hook went to the Judge
Judged ==
    /\ Exited
    /\ hook.approval_mode = "ai"
    /\ ~is_safe_operation(hook.input.tool_name, hook.input.file_path)

\* C18 as the spec states it: the decision is allow, deny or ask exactly when
\* the answer of the Judge is ALLOW, DENY or ASK, and ask for every other
\* answer and for every failure.
C18_JudgeLiteral ==
    Judged =>
        /\ hook.judged = 1
        /\ hookOut.decision =
              IF hook.answered /\ hook.answer = <<"ALLOW">> THEN "allow"
              ELSE IF hook.answered /\ hook.answer = <<"DENY">> THEN "deny"
              ELSE "ask"

\* C18, amended: the answer counts with the white space around it removed
\* and in upper case.
C18_JudgeFailSafe ==
    Judged =>
        /\ hook.judged = 1
        /\ hookOut.decision \in {"allow", "deny", "ask"}
        /\ LET response == Upper(Strip(hook.answer))
           IN  hookOut.decision =
                  IF hook.answered /\ response = <<"ALLOW">> THEN "allow"
                  ELSE IF hook.answered /\ response = <<"DENY">> THEN "deny"
                  ELSE "ask"

C18_Witness ==
    /\ Judged
    /\ hook.attempt = Attempts - 1
    /\ hook.answer = <<" ", "Deny", "\n">>
    /\ hookOut.decision = "deny"

\* C19: for an approval mode other than disabled, strict, auto and ai the
\* hook prints ask with a reason that names the mode, without the rules and
\* without the Judge.
C19_UnknownModeAsks ==
    (Exited /\ hook.approval_mode \notin
                  {"unread", "disabled", "strict", "auto", "ai"}) =>
        /\ hookOut.decision = "ask"
        /\ hookOut.reason = "unknown"
        /\ hookOut.named = hook.approval_mode
        /\ ~hook.rules
        /\ JudgeNotInvoked

C19_Witness ==
    /\ Exited
    /\ StoredMode = "yolo"
    /\ hook.approval_mode = "yolo"
    /\ hookOut.named = "yolo"

\* C20 as the spec states it: a run of the approval hook leaves the registry
\* and the settings files as they were.
C20_NoSideEffect == RegistryFile = before /\ sfile = storeBefore

\* C20, amended: the registry and every settings file that existed are left
\* as they were; for a session id without a settings file the run creates
\* the file of that id, with the defaults.
C20_CreatesOnlyDefaults ==
    (hook.pc # "idle") =>
        /\ RegistryFile = before
        /\ \A s \in SettingsIds :
              IF storeBefore[s].exists THEN sfile[s] = storeBefore[s]
              ELSE (Exited /\ sfile[s].exists) =>
                      /\ s = hook.input.session_id
                      /\ IsSettingsDocument(sfile[s].bytes)
                      /\ IsDefaults(SettingsLoad(sfile[s].bytes))

C20_Witness ==
    /\ Exited
    /\ ~storeBefore["s1"].exists
    /\ sfile["s1"].exists
    /\ hookOut.decision # "none"

(***************************************************************************)
(* Properties of the lock and of the races between registry calls          *)
(***************************************************************************)
\* between acquire_lock and release_lock of read_sessions / write_sessions
InLockedRead(p) == pc[p] \in {"load", "unlock_r"}
InLockedWrite(p) == pc[p] \in {"dump", "unlock_w"}

\* C23: as long as no lock wait times out, no process is inside the locked
\* section of write_sessions while another process is inside the locked
\* section of read_sessions or of write_sessions.
C23_Serialized ==
    ~timedOut =>
        \A p, q \in Procs :
            (p # q /\ InLockedWrite(p)) => ~(InLockedRead(q) \/ InLockedWrite(q))

\* two calls ran, remove_session(sid) and update_session(sid, fields), the
\* registry holding a record of sid at first, and both returned True
UpdateRacedRemove(sid) ==
    /\ Quiescent
    /\ started = 2 /\ Len(done) = 2
    /\ initial = BothRegistered
    /\ {done[1].call.kind, done[2].call.kind} = {"remove", "update"}
    /\ done[1].call.sid = sid /\ done[2].call.sid = sid
    /\ done[1].ret /\ done[2].ret

\* C28: when update_session(id, fields) and remove_session(id) have both
\* returned True, the registry holds a record of id again only if the update
\* wrote last, and the record then carries the fields of the update; the
\* witness is the interleaving in which this happens.
C28_ResurrectedByUpdate ==
    \A sid \in SessionIds :
        (UpdateRacedRemove(sid) /\ RecordsOf(ReadSessions, sid) # {}) =>
            /\ done[2].call.kind = "update"
            /\ Carries(ReadSessions, sid, done[2].call.arg)

\* update read, remove read and wrote, update wrote: both returned True and
\* the record is back, with the fields of the update
C28_Witness ==
    /\ UpdateRacedRemove("s1")
    /\ ~timedOut
    /\ done[1].call.kind = "remove"
    /\ done[2].call.kind = "update"
    /\ RecordsOf(ReadSessions, "s1") # {}
    /\ Carries(ReadSessions, "s1", done[2].call.arg)

(***************************************************************************)
(* Properties of update_session                                            *)
(***************************************************************************)
\* the document read_sessions found as the last call began
DocumentBefore ==
    IF before.exists /\ IsDocument(before.bytes) THEN JsonLoad(before.bytes)
    ELSE EmptyStructure

\* update_session has just returned True, and no call was cut short
UpdateReturned ==
    /\ \A p \in Procs : pc[p] = "idle"
    /\ Len(done) = started
    /\ done # <<>>
    /\ Last(done).call.kind = "update"
    /\ Last(done).ret

\* record `new` is record `old` with the fields of updates merged into it
Merged(old, new, updates) ==
    /\ DOMAIN new = DOMAIN old \cup DOMAIN updates
    /\ \A k \in DOMAIN updates : new[k] = updates[k]
    /\ \A k \in DOMAIN old \ DOMAIN updates : new[k] = old[k]

\* C25: update_session(id, fields) for an id without a record leaves the
\* sessions list as it was and still writes the document with a later
\* last_updated; for an id with a record it merges the fields into that
\* record and leaves every other record and every other field as it was.
C25_UpdateFrame ==
    UpdateReturned =>
        LET u == Last(done).call
            old == DocumentBefore
            new == ReadSessions
            hits == RecordsOf(old, u.sid)
        IN  /\ RegistryExists /\ IsDocument(RegistryBytes)
            /\ new.last_updated > old.last_updated
            /\ Len(new.sessions) = Len(old.sessions)
            /\ hits = {} => new.sessions = old.sessions
            /\ hits # {} =>
                 \E i \in hits :
                    /\ Merged(old.sessions[i], new.sessions[i], u.arg)
                    /\ \A j \in DOMAIN old.sessions \ {i} :
                          new.sessions[j] = old.sessions[j]

\* the record of s1 was removed and update_session("s1", ...) ran next: the
\* other record is all the registry holds
C25_Witness ==
    /\ UpdateReturned
    /\ Len(done) = 2
    /\ done[1].call.kind = "remove" /\ done[1].call.sid = "s1"
    /\ done[2].call.sid = "s1"
    /\ Len(ReadSessions.sessions) >= 1
    /\ RecordsOf(ReadSessions, "s1") = {}

(***************************************************************************)
(* Properties of LangChainLLMClient.chat                                   *)
(***************************************************************************)
\* the waits before the attempts 2 to 7, in seconds
Schedule == <<1, 2, 4, 8, 16, 16>>

\* C24: chat makes at most 7 attempts; before attempt k+1 it has waited 1,
\* 2, 4, 8, 16, 16 seconds after the failures 1 to k and nothing else; it
\* raises only when the 7th attempt has failed, without a wait after it; and
\* once an attempt has returned its text no further attempt is made.
C24_RetrySchedule ==
    /\ [](/\ hook.attempt \in 0..6
          /\ hook.slept = SubSeq(Schedule, 1, hook.attempt)
          /\ hook.raised =>
                (hook.attempt = 6 /\ ~hook.answered /\ hook.slept = Schedule)
          /\ hook.answered => (~hook.raised /\ hook.pc = "exited"))
    /\ [][hook.answered =>
            (/\ hook'.attempt = hook.attempt
             /\ hook'.slept = hook.slept
             /\ hook'.answer = hook.answer)]_vars

\* the 7th attempt failed
C24_Witness ==
    /\ hook.raised
    /\ hook.attempt = 6
    /\ hook.slept = <<1, 2, 4, 8, 16, 16>>
    /\ hookOut.decision = "ask"

(***************************************************************************)
(* Properties of the directory lookup                                      *)
(***************************************************************************)
\* the records of the registry whose cwd is the normalized directory
Matching ==
    LET d == ReadSessions
    IN  {i \in DOMAIN d.sessions :
            Get(d.sessions[i], "cwd", "None") = Resolve(lookup.cwd)}

Waiting(p) == pc[p] \in {"lock_r", "lock_w"}

\* C22: acquire_lock polls at most MaxPolls times after the first attempt;
\* it returns with the lock as soon as an attempt finds it free, or without
\* it when the timeout has elapsed and another process holds it; either way
\* the caller goes on to read or write, and every registry call of the
\* scheduled process returns even if the other process never moves again.
C22_LockTerminates ==
    /\ [](\A p \in Procs : polls[p] \in 0..MaxPolls)
    /\ [][\A p \in Procs :
            (Waiting(p) /\ pc'[p] # pc[p]) =>
                /\ pc'[p] = IF pc[p] = "lock_r" THEN "load" ELSE "dump"
                /\ \/ lockedBy[fd[p]] = NoProc /\ lockedBy'[fd[p]] = p
                   \/ /\ lockedBy[fd[p]] \notin {NoProc, p}
                      /\ polls[p] = MaxPolls
                      /\ lockedBy' = lockedBy]_vars
    /\ (pc["p1"] # "idle") ~> (pc["p1"] = "idle")

\* p1 writes without the lock, which the other process holds
C22_Witness ==
    /\ pc["p1"] = "dump"
    /\ timedOut
    /\ lockedBy[fd["p1"]] = "p2"


(***************************************************************************)
(* Properties of the hooks                                                 *)
(***************************************************************************)
\* the approval hook leaves on an error: its input does not parse, the
\* settings store raises while it is in it, or the judge has raised
ApprovalFails ==
    /\ event.kind = "approval-hook"
    /\ hook.pc # "exited"
    /\ hook'.pc = "exited"
    /\ \/ ~hook.input.valid
       \/ spc[event.p] = "open_w"
       \/ hook'.raised

\* C21: every hook that has ended has exit status 0, whether its input
\* parsed or not and whether the stores failed or not; the approval hook that
\* leaves on an error had printed nothing before and prints the decision ask;
\* what a run has printed is not replaced while that run lasts
C21_HooksExitZero ==
    /\ []((event.kind # "none" /\ EventOver) => hookOut.exit = 0)
    /\ [][ApprovalFails => hookOut = NoOutput /\ hookOut'.decision = "ask"]_vars
    /\ [][hookOut.decision # "none"
            => (hookOut' = hookOut \/ events' # events)]_vars

\* the approval hook ended on a failure of the settings store, and a
\* session-start hook before it had its registry write fail
C21_Witness ==
    /\ event.kind = "approval-hook"
    /\ event.input.valid
    /\ hook.pc = "exited"
    /\ hookOut = Output("ask", "error", "")
    /\ hookOut.exit = 0
    /\ sfile = storeBefore
    /\ \E i \in DOMAIN done : done[i].ret = FALSE

\* a hook of the session registry has ended a run whose input parsed and
\* held no session_id
EndedWithoutSession(kinds) ==
    /\ event.kind \in kinds
    /\ event.input.valid
    /\ event.input.session_id = ""
    /\ EventOver

\* the run printed nothing, left with status 0, and both stores are as they
\* were when it started
NoAction ==
    /\ hookOut = Silent
    /\ RegistryFile = event.registry
    /\ sfile = storeBefore

\* C27: a session-start, session-end, notification or stop hook whose input
\* has no session_id exits with status 0, writes nothing to the registry or
\* the settings store, and prints no decision
C27_NoSessionNoAction ==
    EndedWithoutSession({"session-start", "session-end", "notification-hook",
                         "stop-hook"}) => NoAction

StatusEnum == {"running", "needs_permission", "waiting_for_input"}

\* one of the words is a piece of the message
Mentions(message, words) == \E i \in DOMAIN message : message[i] \in words

\* the status a notification stands for, by the words in it
StatusOf(message) ==
    IF Mentions(message, {"permission", "Permission", "PERMISSION"})
    THEN "needs_permission"
    ELSE IF Mentions(message, {"waiting for your input",
                               "Waiting for your input", "idle", "IDLE"})
    THEN "waiting_for_input"
    ELSE "running"

\* a hook of the given kind has ended, and its call into the registry
\* returned True
Wrote(kind) ==
    /\ event.kind = kind
    /\ event.pc = "exited"
    /\ started > event.base
    /\ Last(done).ret

\* the record of the session of the hook that ran, if there is one, has the
\* status
StatusIs(status) ==
    LET d == ReadSessions
        i == FirstMatch(d.sessions, event.input.session_id)
    IN  i # 0 => d.sessions[i].status = status

\* C29: every record of the registry has one of the three statuses; after
\* session-start and after a stop that did not block the record of the
\* session has status running; after a notification it has needs_permission
\* when the message mentions permission in any case, else waiting_for_input
\* when it mentions "waiting for your input" or "idle", else running
C29_StatusInEnum ==
    /\ \A i \in DOMAIN ReadSessions.sessions :
          ReadSessions.sessions[i].status \in StatusEnum
    /\ Wrote("session-start")
          => RecordsOf(ReadSessions, event.input.session_id) # {}
             /\ StatusIs("running")
    /\ Wrote("stop-hook") => hookOut.decision = "none" /\ StatusIs("running")
    /\ Wrote("notification-hook") => StatusIs(StatusOf(event.input.message))

\* a notification that mentions idle and permission has made a session that
\* was not waiting for a permission wait for one
C29_Witness ==
    /\ Wrote("notification-hook")
    /\ Mentions(event.input.message, {"idle"})
    /\ Mentions(event.input.message, {"permission"})
    /\ event.registry.exists
    /\ LET d == JsonLoad(event.registry.bytes)
           i == FirstMatch(d.sessions, "s1")
       IN  i # 0 /\ d.sessions[i].status # "needs_permission"
    /\ \E i \in RecordsOf(ReadSessions, "s1") :
          ReadSessions.sessions[i].status = "needs_permission"

\* the stop hook has ended a run whose input parsed
StopEnded ==
    /\ event.kind = "stop-hook"
    /\ event.input.valid
    /\ event.pc = "exited"

\* stop-hook is enabled for the session by the settings files `store`: only
\* a file that parses and names stop-hook disables it
EnabledBy(store) ==
    LET f == store[event.input.session_id]
    IN  IF event.input.session_id = "" \/ ~f.exists
           \/ ~IsSettingsDocument(f.bytes)
        THEN TRUE
        ELSE LET d == SettingsLoad(f.bytes)
             IN  ("hooks_enabled" \in DOMAIN d
                    /\ "stop-hook" \in DOMAIN d.hooks_enabled)
                   => d.hooks_enabled["stop-hook"]

\* enabled by the settings file as it was when the run started
StopEnabled == EnabledBy(storeBefore)

\* the latest accepted todo list has an item that is pending or in progress
Incomplete ==
    /\ Accepted # {}
    /\ \E i \in DOMAIN BlockAt(LastAccepted).todos.v :
          BlockAt(LastAccepted).todos.v[i].status \in {"pending", "in_progress"}

Blocks == hookOut.decision = "block"

\* the registry file as it was when the run started
RegistryBefore ==
    IF event.registry.exists /\ IsDocument(event.registry.bytes)
    THEN JsonLoad(event.registry.bytes)
    ELSE EmptyStructure

\* the record of the session, if it had one, is running and its
\* last_activity is later than it was
Refreshed ==
    LET d == ReadSessions
        i == FirstMatch(RegistryBefore.sessions, event.input.session_id)
    IN  i # 0 => /\ d.sessions[i].status = "running"
                 /\ d.sessions[i].last_activity
                       > RegistryBefore.sessions[i].last_activity

AddRacedOther ==
    /\ Quiescent /\ ~timedOut
    /\ started = 2 /\ Len(done) = 2
    /\ done[1].p # done[2].p
    /\ done[1].call.sid # done[2].call.sid
    /\ \E i \in 1..2 : done[i].call.kind = "add"
    /\ done[1].ret /\ done[2].ret

\* the registry file as it was before the first call
InitialSessions ==
    IF IsDocument(initial) THEN JsonLoad(initial) ELSE EmptyStructure

\* C31: after an add_session and a call for another id (add_session,
\* remove_session or update_session) of two processes have returned, no lock
\* wait having timed out, the registry holds the record of every session that
\* was added, and a record that was updated still carries the update
C31_BothKept ==
    AddRacedOther =>
        \A i \in 1..2 :
            /\ done[i].call.kind = "add"
                  => Carries(ReadSessions, done[i].call.sid, done[i].call.arg)
            /\ (done[i].call.kind = "update"
                  /\ RecordsOf(InitialSessions, done[i].call.sid) # {})
                  => Carries(ReadSessions, done[i].call.sid, done[i].call.arg)

\* process p returns from write_sessions in this step
WriteReturns(p) == pc[p] = "rename" /\ pc'[p] = "idle"

\* after the step the registry file holds exactly the document p was given
RegistryHoldsDataOf(p) == RegistryExists' /\ RegistryBytes' = JsonDump(data[p])

\* C32: when write_sessions returns True the registry file holds, at that
\* moment, exactly the document the call was given; when it returns False
\* the registry file does not hold that document, which no other call was
\* given (stated for the interleavings in which no lock wait times out)
C32_TruthfulResult ==
    [][\A p \in Procs :
          (WriteReturns(p) /\ ~timedOut) =>
              IF Last(done').ret THEN RegistryHoldsDataOf(p)
              ELSE ~RegistryHoldsDataOf(p)]_vars

=============================================================================
